---- MODULE Spec2Model ----
(***************************************************************************)
(* tbc: the Turborepo <-> Bazel remote cache proxy.                        *)
(*                                                                         *)
(* The model covers the HTTP artifact server (package server), the gRPC    *)
(* remote-cache client (package client) and the remote it talks to (CAS,   *)
(* ActionCache, bytestream).  Each HTTP request is served on its own       *)
(* goroutine; a goroutine's handler is cut at every access to state that   *)
(* other goroutines can see (the remote store and Server.stats).           *)
(***************************************************************************)
EXTENDS Integers, Sequences, FiniteSets, TLC

VARIABLES
    token,      \* Server.opts.Token
    stats,      \* Server.stats
    pc,         \* per goroutine: where its handler stands
    req,        \* per goroutine: the request it serves
    loc,        \* per goroutine: the handler's local variables
    resp,       \* per goroutine: what was written to the ResponseWriter
    cas,        \* remote ContentAddressableStorage: the blobs it holds
    bsw,        \* remote bytestream: writes begun and not yet closed
    ac,         \* remote ActionCache: action digest hash -> ActionResult
    tmpfiles,   \* temp files that exist on the proxy's disk
    nreq,       \* requests accepted so far
    faults,     \* failures of the environment injected so far
    served,     \* history: responses of the completed requests, counted
    scopes,     \* history: (hash, slug, teamId) of the PUTs that were handled
    lastAlone,  \* history: goroutine whose request completed last, run alone
    counted,    \* history: the sizes of the uploads and downloads that succeeded
    snap,       \* what GetStatistics returned to Main
    exited,     \* Main has returned: the process is gone
    mem,        \* InMemoryClient.artifacts of the in-memory variant of the
                \* client, given the same calls: key -> (data, metadata)
    sup         \* Main: its options, the environment it runs in, where it
                \* stands, what it has done and what it returned

vars == <<token, stats, pc, req, loc, resp, cas, bsw, ac, tmpfiles, nreq,
          faults, served, scopes, lastAlone, counted, snap, exited, mem, sup>>

-----------------------------------------------------------------------------
(* Bounds *)

MaxRequests == 2
MaxFaults == 1

Procs == {1, 2}

-----------------------------------------------------------------------------
(* Strings, headers, query parameters *)

\* A query parameter or a header that may be absent.
Absent == [has |-> FALSE, val |-> ""]
Present(v) == [has |-> TRUE, val |-> v]

\* net/textproto.CanonicalMIMEHeaderKey on the header names of the model.
CanonicalMIMEHeaderKey(n) ==
    CASE n \in {"x-artifact-duration", "X-Artifact-Duration", "X-ARTIFACT-DURATION"}
            -> "X-Artifact-Duration"
      [] n \in {"x-artifact-tag", "X-Artifact-Tag", "X-ARTIFACT-TAG"}
            -> "X-Artifact-Tag"
      [] n \in {"x-artifact-client-ci", "X-Artifact-Client-Ci"}
            -> "X-Artifact-Client-Ci"
      [] n \in {"authorization", "Authorization"}
            -> "Authorization"
      [] n \in {"content-type", "Content-Type"}
            -> "Content-Type"
      [] OTHER -> n

\* The http.Header of a request: the wire headers <<name, value>>, in order,
\* stored under their canonical names.
RECURSIVE ParseHeaders(_)
ParseHeaders(wire) ==
    IF wire = <<>> THEN <<>>
    ELSE <<[name |-> CanonicalMIMEHeaderKey(wire[1][1]), value |-> wire[1][2]]>>
            \o ParseHeaders(Tail(wire))

\* http.Header.Get: the first value stored under the canonical form of the
\* name, "" when there is none.
RECURSIVE HeaderGet(_, _)
HeaderGet(h, name) ==
    IF h = <<>> THEN ""
    ELSE IF h[1].name = CanonicalMIMEHeaderKey(name) THEN h[1].value
    ELSE HeaderGet(Tail(h), name)

\* strings.Join(parts, "/")
RECURSIVE Join(_)
Join(parts) ==
    IF parts = <<>> THEN ""
    ELSE IF Len(parts) = 1 THEN parts[1]
    ELSE parts[1] \o "/" \o Join(Tail(parts))

-----------------------------------------------------------------------------
(* package server: the pure helpers *)

\* A getKey that prepends slug before teamId (teamId/slug/hash).
getKeyMutSwap(hash, query) ==
    IF hash = "" THEN ""
    ELSE LET k0 == <<hash>>
             k1 == IF query.slug.has THEN <<query.slug.val>> \o k0 ELSE k0
             k2 == IF query.teamId.has THEN <<query.teamId.val>> \o k1 ELSE k1
         IN  Join(k2)

\* getKey: "" stands for the 500 "bad hash" answer.
getKey(hash, query) ==
    IF hash = "" THEN ""
    ELSE LET k0 == <<hash>>
             k1 == IF query.teamId.has THEN <<query.teamId.val>> \o k0 ELSE k0
             k2 == IF query.slug.has THEN <<query.slug.val>> \o k1 ELSE k1
         IN  Join(k2)

headersForMetadata == <<"x-artifact-duration", "x-artifact-tag">>

\* client.Metadata is map[string]any: a value carries its dynamic type.  The
\* handlers only ever put strings in; a struct decoded from the remote may
\* hold other kinds.
StringValue(s) == [kind |-> "string", v |-> s]
NumberValue(s) == [kind |-> "number", v |-> s]

NoMetadata == [h \in {} |-> StringValue("")]

\* collectMetadata: the allowlisted headers that have a non-empty value.
RECURSIVE collectFrom(_, _, _)
collectFrom(h, i, md) ==
    IF i > Len(headersForMetadata) THEN md
    ELSE LET hdr == headersForMetadata[i]
             v == HeaderGet(h, hdr)
         IN  IF v # "" THEN collectFrom(h, i + 1, (hdr :> StringValue(v)) @@ md)
             ELSE collectFrom(h, i + 1, md)

\* A collectMetadata that keeps the empty values.
collectMetadataMutKeepEmpty(h) ==
    [hdr \in {headersForMetadata[i] : i \in 1..Len(headersForMetadata)}
        |-> StringValue(HeaderGet(h, hdr))]

collectMetadata(h) == collectFrom(h, 1, NoMetadata)

\* A middleware that compares the header with the bare token.
gatePassesMutRawToken(tok, h) ==
    tok = "" \/ HeaderGet(h, "Authorization") = tok

\* The bearer middleware of CreateHandler: TRUE when the request is let through.
gatePasses(tok, h) ==
    tok = "" \/ HeaderGet(h, "Authorization") = "Bearer " \o tok

-----------------------------------------------------------------------------
(* package client: digests and the synthetic protos *)

blobFileName == "cache_blob"

\* SHA-256 in lowercase hex: distinct inputs have distinct digests.
Sha256Hex(data) == "sha256(" \o data \o ")"

DigestOf(data) == [hash |-> Sha256Hex(data), size_bytes |-> Len(data)]

\* proto.Marshal of Command{Arguments: ["tbc fake command", "key", key]}
MarshalCommand(key) == "Command{tbc fake command,key," \o key \o "}"

\* proto.Marshal of Action{CommandDigest: d}
MarshalAction(d) == "Action{" \o d.hash \o "," \o ToString(d.size_bytes) \o "}"

\* The acProtos of a call that has not prepared them.
NoACProtos ==
    [command |-> [digest |-> [hash |-> "", size_bytes |-> 0], data |-> ""],
     action  |-> [digest |-> [hash |-> "", size_bytes |-> 0], data |-> ""]]

\* A prepareACProtos whose Command carries, after the key, the number of
\* requests the server has accepted.
prepareACProtosMutSalted(key) ==
    LET commandData == MarshalCommand(key \o "," \o ToString(nreq))
        commandDigest == DigestOf(commandData)
        actionData == MarshalAction(commandDigest)
    IN  [command |-> [digest |-> commandDigest, data |-> commandData],
         action  |-> [digest |-> DigestOf(actionData), data |-> actionData]]

prepareACProtos(key) ==
    LET commandData == MarshalCommand(key)
        commandDigest == DigestOf(commandData)
        actionData == MarshalAction(commandDigest)
    IN  [command |-> [digest |-> commandDigest, data |-> commandData],
         action  |-> [digest |-> DigestOf(actionData), data |-> actionData]]

\* convertMetadataToProto: one Any holding the struct.
convertMetadataToProto(md) ==
    <<[type_url |-> "type.googleapis.com/google.protobuf.Struct", fields |-> md]>>

\* A convertMetadataFromProto that decodes the first of several entries.
convertMetadataFromProtoMutFirst(in) ==
    IF Len(in) = 0 THEN NoMetadata ELSE in[1].fields

\* A convertMetadataFromProto that loses the struct.
convertMetadataFromProtoMutDrop(in) == NoMetadata

\* convertMetadataFromProto
convertMetadataFromProto(in) ==
    IF Len(in) # 1 THEN NoMetadata ELSE in[1].fields

\* An UploadFile that attaches execution_metadata whatever the map holds.
NewActionResultMutAlwaysMeta(fileDigest, md) ==
    [output_files |-> <<[path |-> blobFileName, digest |-> fileDigest]>>,
     execution_metadata |-> <<[auxiliary_metadata |-> convertMetadataToProto(md)]>>]

\* The ActionResult UploadFile writes: execution_metadata is <<>> for a nil
\* pointer, else one ExecutedActionMetadata.
NewActionResult(fileDigest, md) ==
    [output_files |-> <<[path |-> blobFileName, digest |-> fileDigest]>>,
     execution_metadata |->
        IF DOMAIN md # {}
        THEN <<[auxiliary_metadata |-> convertMetadataToProto(md)]>>
        ELSE <<>>]

\* resp.GetExecutionMetadata().GetAuxiliaryMetadata()
GetAuxiliaryMetadata(ar) ==
    IF ar.execution_metadata = <<>> THEN <<>>
    ELSE ar.execution_metadata[1].auxiliary_metadata

\* slices.IndexFunc(resp.OutputFiles, path == blobFileName); 0 for "none"
RECURSIVE IndexOfBlob(_, _)
IndexOfBlob(files, i) ==
    IF i > Len(files) THEN 0
    ELSE IF files[i].path = blobFileName THEN i
    ELSE IndexOfBlob(files, i + 1)

\* An error: its message and the gRPC code status.FromError finds in it ("" when
\* it carries no gRPC status).  NilErr is the nil error.
NilErr == [msg |-> "", code |-> "OK"]

Error(msg, code) == [msg |-> msg, code |-> code]

\* fault.Wrap(err, ...): a nil error stays nil (the last line of UploadFile
\* relies on it); any other error is wrapped, and status.FromError still finds
\* the gRPC status of the wrapped error.
faultWrap(err, msg) ==
    IF err = NilErr THEN NilErr ELSE Error(msg \o ": " \o err.msg, err.code)

-----------------------------------------------------------------------------
(* The requests of the model *)

NoQuery == [slug |-> Absent, teamId |-> Absent]

Queries ==
    { NoQuery,
      [slug |-> Absent,       teamId |-> Present("a")],
      [slug |-> Present("a"), teamId |-> Absent],
      [slug |-> Present("a"), teamId |-> Present("b")],
      [slug |-> Present(""),  teamId |-> Absent] }

NoHeaders == <<>>

MetaHeaders ==
    { << <<"X-Artifact-Duration", "42">>, <<"X-Artifact-Client-Ci", "TEST">>,
         <<"X-Artifact-Tag", "T">> >>,
      << <<"x-artifact-duration", "">>, <<"x-artifact-client-ci", "TEST">>,
         <<"X-ARTIFACT-TAG", "T">> >> }

AuthHeaders ==
    { << <<"Authorization", "Bearer t0k3n">> >>,
      << <<"authorization", "t0k3n">> >> }

Tokens == {"", "t0k3n"}

Request(kind, hash, query, hdrs, body) ==
    [kind |-> kind, hash |-> hash, query |-> query, hdrs |-> hdrs, body |-> body]

\* Requests that carry no Authorization header.
PlainRequests ==
    { Request("put", "k", q, NoHeaders, "x") : q \in Queries }
    \cup { Request("put", "k", NoQuery, h, "yy") : h \in MetaHeaders }
    \cup { Request("head", "k", q, NoHeaders, "") : q \in Queries }
    \cup { Request("get", "k", q, NoHeaders, "") : q \in Queries }
    \cup { Request("events", "", NoQuery, NoHeaders, ""),
           Request("status", "", NoQuery, NoHeaders, "") }

\* Requests that carry one: the right one or a wrong one.
AuthRequests ==
    { Request(k, IF k = "events" THEN "" ELSE "k", NoQuery, a,
              IF k = "put" THEN "x" ELSE "")
        : k \in {"put", "get", "events"}, a \in AuthHeaders }

Requests == PlainRequests \cup AuthRequests

\* The requests of the runs in which requests overlap.
ConcurrentRequests ==
    { Request("put", "k", NoQuery, h, "x") : h \in MetaHeaders }
    \cup { Request("put", "k", NoQuery, NoHeaders, "yy"),
           Request("put", "k", [slug |-> Absent, teamId |-> Present("a")],
                   NoHeaders, "x"),
           Request("get", "k", NoQuery, NoHeaders, ""),
           Request("get", "k", [slug |-> Present("a"), teamId |-> Absent],
                   NoHeaders, ""),
           Request("head", "k", NoQuery, NoHeaders, ""),
           Request("events", "", NoQuery, NoHeaders, ""),
           Request("status", "", NoQuery, NoHeaders, "") }

NoRequest == Request("none", "", NoQuery, NoHeaders, "")

-----------------------------------------------------------------------------
(* State *)

ZeroStats ==
    [ErrorsCount |-> 0, UploadCount |-> 0, ExistsYesCount |-> 0,
     ExistsNoCount |-> 0, DownloadCount |-> 0, DownloadNotFoundCount |-> 0,
     UploadedBytes |-> 0, DownloadedBytes |-> 0]

NoDigest == [hash |-> "", size_bytes |-> 0]

NoCall == [op |-> "", key |-> "", md |-> NoMetadata]

\* A handler's local variables.  incs/tmp: the counter updates still to do
\* and the value loaded for the current one.  call: the client call the
\* handler made.  batch, located: how its BatchUpdateBlobs and its
\* GetActionResult ended.
\* ok, err: what the client call returned (err also holds the error of a
\* failed os call).
\* acProtos: the protos the client call prepared.  counts: the counter
\* updates the handler has done.
\* ran, faulted, alone, pred, before: history (the handler was entered;
\* a failure was injected into it; no other request was in flight while it
\* ran; the goroutine whose request completed just before this one came in;
\* Server.stats when the request came in, kept as long as it runs alone).
NoLocals ==
    [key |-> "", size |-> 0, fileDigest |-> NoDigest, of |-> NoDigest,
     md |-> NoMetadata, file |-> "", incs |-> <<>>, tmp |-> 0,
     acProtos |-> NoACProtos, counts |-> <<>>,
     call |-> NoCall, batch |-> "", located |-> "", ran |-> FALSE, faulted |-> FALSE, alone |-> FALSE,
     pred |-> 0, ok |-> FALSE, err |-> NilErr, before |-> ZeroStats]

NoResponse == [code |-> 0, body |-> "", headers |-> NoMetadata]

Response(code, body, headers) ==
    [code |-> code, body |-> body, headers |-> headers]

\* http.Error(w, msg, code)
httpError(msg, code) ==
    Response(code, msg \o "\n", "Content-Type" :> "text/plain; charset=utf-8")

ZeroServed ==
    [put202 |-> 0, ulBytes |-> 0, get200 |-> 0, dlBytes |-> 0, head200 |-> 0,
     head404 |-> 0, get404 |-> 0, c5xx |-> 0]

\* The history of responses after request r was answered with rsp.
Count(s, r, rsp) ==
    LET is(k, c) == r.kind = k /\ rsp.code = c
        b(x) == IF x THEN 1 ELSE 0
    IN  [put202  |-> s.put202 + b(is("put", 202)),
         ulBytes |-> s.ulBytes + (IF is("put", 202) THEN Len(r.body) ELSE 0),
         get200  |-> s.get200 + b(is("get", 200)),
         dlBytes |-> s.dlBytes + (IF is("get", 200) THEN Len(rsp.body) ELSE 0),
         head200 |-> s.head200 + b(is("head", 200)),
         head404 |-> s.head404 + b(is("head", 404)),
         get404  |-> s.get404 + b(is("get", 404)),
         c5xx    |-> s.c5xx + b(rsp.code >= 500)]

Idle(g) == pc[g] \in {"idle", "done"}

\* The goroutines a new request can be served on: none once the process is
\* gone or the requests of the run have all arrived.
FreeProcs ==
    IF exited \/ nreq >= MaxRequests THEN {} ELSE {g \in Procs : Idle(g)}

-----------------------------------------------------------------------------
(* package client: the in-memory variant *)

\* NewInMemoryClient: the empty map.
NoArtifacts == [k \in {} |-> 0]

\* An InMemoryClient.UploadFile that starts from an empty map.
memUploadFileMutReplace(m, key, data, metadata) ==
    (key :> [data |-> data, metadata |-> metadata])

\* InMemoryClient.UploadFile: artifacts[key] = artifact{data, metadata}
memUploadFile(m, key, data, metadata) ==
    (key :> [data |-> data, metadata |-> metadata]) @@ m

\* InMemoryClient.FindFile: (ok, err)
memFindFile(m, key) == [ok |-> key \in DOMAIN m, err |-> NilErr]

\* InMemoryClient.DownloadFile: what was written to w, the metadata, the error.
memDownloadFile(m, key) ==
    IF key \in DOMAIN m
    THEN [written |-> m[key].data, md |-> m[key].metadata, err |-> NilErr]
    ELSE [written |-> "", md |-> NoMetadata,
          err |-> Error("artifact not found", "NotFound")]

-----------------------------------------------------------------------------
(* package cmd: Options, the environment and the pure helpers of Main *)

\* strings.HasPrefix
HasPrefix(str, prefix) ==
    Len(str) >= Len(prefix) /\ SubSeq(str, 1, Len(prefix)) = prefix

serverBaseURL(addr) ==
    "http://" \o (IF HasPrefix(addr, ":") THEN "localhost" \o addr ELSE addr)

serverCheckURL(addr) == serverBaseURL(addr) \o "/v8/artifacts/status"

\* os.LookupEnv on an environment in the form of os.Environ(): its second
\* result, true for a variable that is set, to the empty string included.
LookupEnv(environ, name) ==
    \E i \in 1..Len(environ) : HasPrefix(environ[i], name \o "=")

\* Cmd.turboEnvironment
turboEnvironment(environ, addr) ==
    LET api == IF ~LookupEnv(environ, "TURBO_API")
               THEN Append(environ, "TURBO_API=" \o serverBaseURL(addr))
               ELSE environ
        tok == IF ~LookupEnv(environ, "TURBO_TOKEN")
               THEN Append(api, "TURBO_TOKEN=ignore") ELSE api
    IN  IF ~LookupEnv(environ, "TURBO_TEAM")
        THEN Append(tok, "TURBO_TEAM=ignore") ELSE tok

\* The Options of the model (Command, Args and the remote host are left to
\* the outcomes of the calls that use them; RemoteCacheTLS is drawn where
\* instantiateClient reads it).
OptionsSet ==
    [BindAddr : {":8080", "127.0.0.1:8080"}, AutoEnv : BOOLEAN,
     Disabled : BOOLEAN, IgnoreFailures : BOOLEAN]

\* The environments Main is started in.
ParentEnvs ==
    { <<"PATH=/bin">>,
      <<"PATH=/bin", "TURBO_TEAM=cache-version-1">>,
      <<"TURBO_API=http://cache:80", "TURBO_TOKEN=", "TURBO_TEAM=t">> }

\* A GetCapabilities response: a nil message reads as its zero value.
NilUpdateCapabilities == [nil |-> TRUE, update_enabled |-> FALSE]

UpdateCapabilities(enabled) == [nil |-> FALSE, update_enabled |-> enabled]

NilCacheCapabilities ==
    [nil |-> TRUE, digest_functions |-> <<>>,
     action_cache_update_capabilities |-> NilUpdateCapabilities]

CacheCapabilities(fns, upd) ==
    [nil |-> FALSE, digest_functions |-> fns,
     action_cache_update_capabilities |-> upd]

NoCapabilities == [rpc |-> "", cache_capabilities |-> NilCacheCapabilities]

\* What GetCapabilities may do: fail, or answer.
CapabilityResponses ==
    { [rpc |-> "err", cache_capabilities |-> NilCacheCapabilities],
      [rpc |-> "ok", cache_capabilities |-> NilCacheCapabilities] }
    \cup { [rpc |-> "ok", cache_capabilities |-> CacheCapabilities(fns, upd)] :
              fns \in { <<>>, <<"MD5">>, <<"SHA256">>, <<"MD5", "SHA256">> },
              upd \in { NilUpdateCapabilities, UpdateCapabilities(FALSE),
                        UpdateCapabilities(TRUE) } }

GetDigestFunctions(cc) == IF cc.nil THEN <<>> ELSE cc.digest_functions

GetUpdateEnabled(cc) ==
    IF cc.nil \/ cc.action_cache_update_capabilities.nil THEN FALSE
    ELSE cc.action_cache_update_capabilities.update_enabled

\* slices.Contains
Contains(seq, x) == \E i \in 1..Len(seq) : seq[i] = x

\* A CheckCapabilities that does not look at update_enabled.
CheckCapabilitiesMutNoUpdate(c) ==
    IF c.rpc = "err"
    THEN faultWrap(Error("rpc error", "Unavailable"), "GetCapabilities() failed")
    ELSE IF ~Contains(GetDigestFunctions(c.cache_capabilities), "SHA256")
    THEN Error("SHA256 is not supported by remote cache", "")
    ELSE NilErr

\* client.CheckCapabilities, given what GetCapabilities did: the error.
CheckCapabilities(c) ==
    IF c.rpc = "err"
    THEN faultWrap(Error("rpc error", "Unavailable"), "GetCapabilities() failed")
    ELSE IF ~Contains(GetDigestFunctions(c.cache_capabilities), "SHA256")
    THEN Error("SHA256 is not supported by remote cache", "")
    ELSE IF ~GetUpdateEnabled(c.cache_capabilities)
    THEN Error("AC update is not supported by remote cache", "")
    ELSE NilErr

\* Options.RemoteCacheTLS: nil, or the two PEM blobs.  Of the blobs the model
\* keeps what tls.X509KeyPair makes of them: "" is the empty blob, "CERT" a
\* certificate, "KEY" its private key, "junk" bytes that hold no PEM data.
NilTLSCerts == [nil |-> TRUE, CertPEM |-> "", KeyPEM |-> ""]

TLSCerts(cert, key) == [nil |-> FALSE, CertPEM |-> cert, KeyPEM |-> key]

TLSCertsSet ==
    {NilTLSCerts}
    \cup {TLSCerts(cert, key) : cert \in {"", "CERT", "junk"}, key \in {"", "KEY"}}

\* tls.X509KeyPair: the error.
X509KeyPair(certPEMBlock, keyPEMBlock) ==
    IF certPEMBlock = "CERT" /\ keyPEMBlock = "KEY" THEN NilErr
    ELSE Error("tls: failed to find any PEM data", "")

\* A *grpc.ClientConn with its transport credentials; nil when none was made.
NoClientConn == [nil |-> TRUE, creds |-> ""]

ClientConn(creds) == [nil |-> FALSE, creds |-> creds]

\* What grpc.NewClient may do with the host it is given.
NewClientOutcomes == {"ok", "err"}

\* A NewClientConn that falls back to the insecure transport when one of the
\* two blobs is missing.
NewClientConnMutFallBack(certPEMBlock, keyPEMBlock, o) ==
    IF Len(certPEMBlock) > 0 /\ Len(keyPEMBlock) > 0
    THEN IF X509KeyPair(certPEMBlock, keyPEMBlock) # NilErr
         THEN [cc |-> NoClientConn, creds |-> "",
               err |-> X509KeyPair(certPEMBlock, keyPEMBlock)]
         ELSE IF o = "err"
         THEN [cc |-> NoClientConn, creds |-> "tls",
               err |-> Error("grpc: failed to build the client", "")]
         ELSE [cc |-> ClientConn("tls"), creds |-> "tls", err |-> NilErr]
    ELSE IF o = "err"
    THEN [cc |-> NoClientConn, creds |-> "insecure",
          err |-> Error("grpc: failed to build the client", "")]
    ELSE [cc |-> ClientConn("insecure"), creds |-> "insecure", err |-> NilErr]

\* client.NewClientConn: the connection, the credentials it chose (none when
\* it returned before choosing) and the error.
NewClientConnOf(certPEMBlock, keyPEMBlock, o) ==
    IF Len(certPEMBlock) > 0 \/ Len(keyPEMBlock) > 0
    THEN IF Len(certPEMBlock) = 0 \/ Len(keyPEMBlock) = 0
         THEN [cc |-> NoClientConn, creds |-> "",
               err |-> Error("only one of certPEMBlock and keyPEMBlock was provided", "")]
         ELSE IF X509KeyPair(certPEMBlock, keyPEMBlock) # NilErr
         THEN [cc |-> NoClientConn, creds |-> "",
               err |-> X509KeyPair(certPEMBlock, keyPEMBlock)]
         ELSE IF o = "err"
         THEN [cc |-> NoClientConn, creds |-> "tls",
               err |-> Error("grpc: failed to build the client", "")]
         ELSE [cc |-> ClientConn("tls"), creds |-> "tls", err |-> NilErr]
    ELSE IF o = "err"
    THEN [cc |-> NoClientConn, creds |-> "insecure",
          err |-> Error("grpc: failed to build the client", "")]
    ELSE [cc |-> ClientConn("insecure"), creds |-> "insecure", err |-> NilErr]

\* Who answers at the bind address once ListenAndServe has run: this
\* proxy ("bound"); nobody, the bind having failed ("denied"); another
\* HTTP server that holds the address, the bind having failed ("inuse"),
\* which answers the status path with the given status; or a process that
\* holds the address, accepts connections and never answers ("mute").
Listener(state, answers) == [state |-> state, answers |-> answers]

NoListener == Listener("", 0)

ListenOutcomes ==
    { Listener("bound", 0), Listener("denied", 0), Listener("mute", 0) }
    \cup { Listener("inuse", code) : code \in {200, 404, 503} }

\* retryablehttp's Get, given the status that the address answers with (0:
\* the connection is refused): it retries a refused connection, a 429 and a
\* 5xx other than 501, and gives up with an error; any other answer is
\* returned.
hcGet(code) ==
    IF code = 0 \/ code = 429 \/ (code >= 500 /\ code # 501)
    THEN Error("giving up after 5 attempt(s)", "") ELSE NilErr

\* The fields of Stats in the order of the struct, with their slog tags.
statsFields ==
    << [name |-> "ErrorsCount",           slog |-> "errors"],
       [name |-> "UploadCount",           slog |-> "uploads"],
       [name |-> "ExistsYesCount",        slog |-> "exists_yes"],
       [name |-> "ExistsNoCount",         slog |-> "exists_no"],
       [name |-> "DownloadCount",         slog |-> "downloads"],
       [name |-> "DownloadNotFoundCount", slog |-> "downloads_not_found"],
       [name |-> "UploadedBytes",         slog |-> "ul_bytes"],
       [name |-> "DownloadedBytes",       slog |-> "dl_bytes"] >>

\* The loop of SlogArgs over the fields, from field i on.
RECURSIVE slogFrom(_, _, _)
slogFrom(st, i, result) ==
    IF i > Len(statsFields) THEN result
    ELSE LET f == statsFields[i]
             v == st[f.name]
         IN  IF f.slog # "" /\ v > 0
             THEN slogFrom(st, i + 1, Append(result, <<f.slog, v>>))
             ELSE slogFrom(st, i + 1, result)

\* A SlogArgs that always ends with the cache_requests pair.
SlogArgsMutAlwaysSentinel(st) ==
    Append(slogFrom(st, 1, <<>>), <<"cache_requests", 0>>)

\* Stats.SlogArgs
SlogArgs(st) ==
    LET result == slogFrom(st, 1, <<>>)
    IN  IF Len(result) = 0 THEN << <<"cache_requests", 0>> >> ELSE result

\* What Main returns.
NotReturned ==
    [returned |-> FALSE, exitCode |-> 0, serverStats |-> ZeroStats,
     errorsIgnored |-> FALSE, err |-> NilErr]

Return(exitCode, serverStats, errorsIgnored, err) ==
    [returned |-> TRUE, exitCode |-> exitCode, serverStats |-> serverStats,
     errorsIgnored |-> errorsIgnored, err |-> err]

\* What the child did: not started (""), "running", "exited" with a code, or
\* "lost" when waiting for it failed.
NoChild == [state |-> "", code |-> 0]

\* Main at its entry.
Entry(opts, environ) ==
    [opts |-> opts, environ |-> environ, at |-> "main",
     cl |-> FALSE, srv |-> FALSE, errorsIgnored |-> FALSE,
     tls |-> NilTLSCerts, conn |-> NoClientConn, creds |-> "",
     connErr |-> NilErr,
     capabilities |-> NoCapabilities, listener |-> NoListener, probe |-> 0,
     cmdEnv |-> <<>>, child |-> NoChild, trace |-> <<>>, ret |-> NotReturned,
     summary |-> <<>>]

\* Main with the proxy up and the child running: where the server is when
\* it serves the child's requests.
Started ==
    [Entry([BindAddr |-> ":8080", AutoEnv |-> FALSE, Disabled |-> FALSE,
            IgnoreFailures |-> FALSE], <<"PATH=/bin">>)
     EXCEPT !.at = "wait", !.cl = TRUE, !.srv = TRUE,
            !.conn = ClientConn("insecure"), !.creds = "insecure",
            !.listener = Listener("bound", 0), !.probe = 200,
            !.cmdEnv = <<"PATH=/bin">>,
            !.child = [state |-> "running", code |-> 0],
            !.trace = <<"NewClientConn", "CheckCapabilities", "NewServer",
                        "ListenAndServe", "Get", "Start">>]

-----------------------------------------------------------------------------
(* Construction *)

Start(tokens) ==
    /\ token \in tokens
    /\ stats = ZeroStats
    /\ pc = [g \in Procs |-> "idle"]
    /\ req = [g \in Procs |-> NoRequest]
    /\ loc = [g \in Procs |-> NoLocals]
    /\ resp = [g \in Procs |-> NoResponse]
    /\ cas = {}
    /\ bsw = {}
    /\ ac = [d \in {} |-> 0]
    /\ tmpfiles = {}
    /\ nreq = 0
    /\ faults = 0
    /\ served = ZeroServed
    /\ scopes = {}
    /\ lastAlone = 0
    /\ counted = [ul |-> <<>>, dl |-> <<>>]
    /\ snap = ZeroStats
    /\ exited = FALSE
    /\ mem = NoArtifacts

-----------------------------------------------------------------------------
(* How a handler step ends *)

\* A handler whose return leaves the temp file behind.
FinishMutKeepTemp(g, r, L, rsp, tf) ==
    /\ pc' = [pc EXCEPT ![g] = "done"]
    /\ loc' = L
    /\ resp' = [resp EXCEPT ![g] = rsp]
    /\ tmpfiles' = tf
    /\ served' = Count(served, r, rsp)
    /\ lastAlone' = IF L[g].alone THEN g ELSE 0

\* The handler of goroutine g returns: the deferred Close/Remove of its temp
\* file runs and the response is complete.
Finish(g, r, L, rsp, tf) ==
    /\ pc' = [pc EXCEPT ![g] = "done"]
    /\ loc' = L
    /\ resp' = [resp EXCEPT ![g] = rsp]
    /\ tmpfiles' = tf \ {g}
    /\ served' = Count(served, r, rsp)
    /\ lastAlone' = IF L[g].alone THEN g ELSE 0

\* The handler goes on at next.
Continue(g, L, rsp, tf, next) ==
    /\ pc' = [pc EXCEPT ![g] = next]
    /\ loc' = L
    /\ resp' = [resp EXCEPT ![g] = rsp]
    /\ tmpfiles' = tf
    /\ served' = served
    /\ lastAlone' = IF lastAlone = g THEN 0 ELSE lastAlone

\* The response is decided; the counters in L[g].incs are still to update.
Decide(g, r, L, rsp, tf) ==
    IF L[g].incs = <<>> THEN Finish(g, r, L, rsp, tf)
    ELSE Continue(g, L, rsp, tf, "stat_ld")

\* s.logError(err): ErrorsCount++
logError == << <<"ErrorsCount", 1>> >>

\* loc with the locals of g replaced.
With(g, new) == [loc EXCEPT ![g] = new]

\* An injected failure is counted and remembered.
Inject(g, o) ==
    /\ o # "ok" => faults < MaxFaults
    /\ faults' = faults + (IF o = "ok" THEN 0 ELSE 1)

Faulted(l, o) == [l EXCEPT !.faulted = @ \/ o # "ok"]

-----------------------------------------------------------------------------
(* package server: the router, the bearer middleware and the handlers up to
   their first call to the remote *)

\* What may go wrong with the temp file of an upload or a download before the
\* client is called: os.CreateTemp, io.Copy of the body, Close.
LocalOutcomes(r, tok) ==
    IF ~gatePasses(tok, ParseHeaders(r.hdrs)) THEN {"ok"}
    ELSE IF r.kind = "put" THEN {"ok", "createtemp", "copy", "close"}
    ELSE IF r.kind = "get" THEN {"ok", "createtemp"}
    ELSE {"ok"}

\* The JSON the handlers write (json.Encoder of a nil slice writes null).
statusBody == "{\"status\":\"enabled\"}\n"
uploadBody == "{\"urls\":null}\n"

\* A statusHandler that reports the cache as disabled.
statusHandlerMutDisabled ==
    Response(200, "{\"status\":\"disabled\"}\n",
             "Content-Type" :> "application/json")

\* statusHandler: what it writes.
statusHandler ==
    Response(200, statusBody, "Content-Type" :> "application/json")

\* What a GET of /v8/artifacts/status that carries no Authorization header
\* is answered with: the bearer gate, then the status handler.
StatusAnswer(tok) ==
    IF ~gatePasses(tok, ParseHeaders(NoHeaders))
    THEN httpError("Forbidden", 403) ELSE statusHandler

ScopeOf(r) == [hash |-> r.hash, slug |-> r.query.slug, teamId |-> r.query.teamId]

\* A request arrives and is served on goroutine g, up to the handler's first
\* access to shared state.
Accept(g, r, o) ==
    /\ ~exited
    /\ Idle(g)
    /\ nreq < MaxRequests
    /\ o \in LocalOutcomes(r, token)
    /\ Inject(g, o)
    /\ nreq' = nreq + 1
    /\ req' = [req EXCEPT ![g] = r]
    /\ LET h == ParseHeaders(r.hdrs)
           quiet == \A p \in Procs \ {g} : Idle(p)
           base == [NoLocals EXCEPT
                       !.alone = quiet,
                       !.pred = IF quiet /\ lastAlone # g THEN lastAlone ELSE 0,
                       !.faulted = o # "ok",
                       !.before = IF quiet THEN stats ELSE ZeroStats]
           entered == [base EXCEPT !.ran = TRUE]
           L(new) == [p \in Procs |->
                        IF p = g THEN new
                        ELSE [loc[p] EXCEPT
                                !.alone = IF Idle(p) THEN @ ELSE FALSE,
                                !.before = IF Idle(p) THEN @ ELSE ZeroStats,
                                !.pred = IF @ = g THEN 0 ELSE @]]
           key == getKey(r.hash, r.query)
           keyed == [entered EXCEPT !.key = key]
           failed == [keyed EXCEPT !.incs = logError,
                                   !.err = Error("os error", "")]
       IN  IF ~gatePasses(token, h)
           THEN /\ Finish(g, r, L(base), httpError("Forbidden", 403), tmpfiles)
                /\ scopes' = scopes
           ELSE CASE r.kind = "events" ->
                    /\ Finish(g, r, L(entered), Response(200, "", NoMetadata), tmpfiles)
                    /\ scopes' = scopes
                [] r.kind = "status" ->
                    /\ Finish(g, r, L(entered), statusHandler, tmpfiles)
                    /\ scopes' = scopes
                [] r.kind \in {"put", "head", "get"} /\ key = "" ->
                    /\ Finish(g, r, L(entered), httpError("bad hash", 500), tmpfiles)
                    /\ scopes' = scopes
                [] r.kind = "put" /\ key # "" ->
                    /\ scopes' = scopes \cup {ScopeOf(r)}
                    /\ IF o = "createtemp"
                       THEN Decide(g, r, L(failed),
                                   httpError("unable to upload", 500), tmpfiles)
                       ELSE IF o \in {"copy", "close"}
                       THEN Decide(g, r, L(failed),
                                   httpError("unable to upload", 500),
                                   tmpfiles \cup {g})
                       ELSE LET md == collectMetadata(h)
                            IN  Continue(g,
                                    L([keyed EXCEPT
                                        !.size = Len(r.body),
                                        !.md = md,
                                        !.call = [op |-> "UploadFile",
                                                  key |-> key, md |-> md]]),
                                    NoResponse, tmpfiles \cup {g}, "ul_cas")
                [] r.kind = "head" /\ key # "" ->
                    /\ scopes' = scopes
                    /\ Continue(g,
                            L([keyed EXCEPT
                                !.call = [op |-> "FindFile", key |-> key,
                                          md |-> NoMetadata]]),
                            NoResponse, tmpfiles, "find")
                [] r.kind = "get" /\ key # "" ->
                    /\ scopes' = scopes
                    /\ IF o = "createtemp"
                       THEN Decide(g, r, L(failed),
                                   httpError("unable to download", 500), tmpfiles)
                       ELSE Continue(g,
                                L([keyed EXCEPT
                                    !.call = [op |-> "DownloadFile", key |-> key,
                                              md |-> NoMetadata]]),
                                NoResponse, tmpfiles \cup {g}, "locate")
    \* the in-memory variant is given the UploadFile call as well
    /\ mem' = IF /\ gatePasses(token, ParseHeaders(r.hdrs))
                 /\ r.kind = "put" /\ r.hash # "" /\ o = "ok"
              THEN memUploadFile(mem, getKey(r.hash, r.query), r.body,
                                 collectMetadata(ParseHeaders(r.hdrs)))
              ELSE mem
    /\ UNCHANGED <<token, stats, cas, bsw, ac, counted, snap, exited>>

-----------------------------------------------------------------------------
(* Server.stats: every update is a load and a store *)

\* s.stats.X++ / s.stats.X += n, first half: the load.
StatLoad(g) ==
    /\ pc[g] = "stat_ld"
    /\ ~exited
    /\ pc' = [pc EXCEPT ![g] = "stat_st"]
    /\ loc' = [loc EXCEPT ![g].tmp = stats[loc[g].incs[1][1]]]
    /\ UNCHANGED <<token, mem, sup, stats, req, resp, cas, bsw, ac, tmpfiles, nreq,
                   faults, served, scopes, lastAlone, counted, snap, exited>>

\* Second half: the store; after the last update the handler returns.
StatStore(g) ==
    /\ pc[g] = "stat_st"
    /\ ~exited
    /\ LET inc == loc[g].incs[1]
           L == With(g, [loc[g] EXCEPT !.incs = Tail(@), !.tmp = 0,
                                       !.counts = Append(@, inc)])
       IN  /\ stats' = [stats EXCEPT ![inc[1]] = loc[g].tmp + inc[2]]
           /\ Decide(g, req[g], L, resp[g], tmpfiles)
    /\ UNCHANGED <<token, mem, sup, req, cas, bsw, ac, nreq, faults, scopes, counted, snap,
                   exited>>

\* Server.GetStatistics, as Main calls it once the child has exited: the
\* server is still serving, and the process ends when Main returns.
GetStatistics ==
    /\ ~exited
    /\ snap' = stats
    /\ exited' = TRUE
    /\ UNCHANGED <<token, mem, stats, pc, req, loc, resp, cas, bsw, ac, tmpfiles,
                   nreq, faults, served, scopes, lastAlone, counted>>

-----------------------------------------------------------------------------
(* package client against the remote: UploadFile *)

\* An uploadToCAS that returns without closing the writer.
AfterCopyMutNoClose == "ul_batch"

\* uploadToCAS: after io.Copy(w, f) comes w.Close().
AfterCopy == "ul_close"

RpcOutcomes == {"ok", "err"}
BatchOutcomes == {"ok", "err", "substatus"}

\* The error of an RPC that the remote or the transport failed.
RpcErr(o) == IF o = "err" THEN Error("rpc error", "Unavailable") ELSE NilErr

Blob(data) == [digest |-> DigestOf(data), data |-> data]

\* uploadArtifactHandler after s.cl.UploadFile returned err.
UploadReturns(g, l, err) ==
    IF err # NilErr
    THEN /\ Decide(g, req[g], With(g, [l EXCEPT !.incs = logError, !.err = err]),
                   httpError("unable to upload", 500), tmpfiles)
         /\ counted' = counted
    ELSE /\ Decide(g, req[g],
                   With(g, [l EXCEPT !.incs = << <<"UploadCount", 1>>,
                                                <<"UploadedBytes", l.size>> >>]),
                   Response(202, uploadBody, NoMetadata), tmpfiles)
         /\ counted' = [counted EXCEPT !.ul = Append(@, Len(req[g].body))]

\* uploadToCAS up to the end of io.Copy(w, f): the file is hashed and a
\* bytestream write of it has begun under a fresh upload resource name.
UploadToCAS(g, o) ==
    /\ pc[g] = "ul_cas"
    /\ ~exited
    /\ o \in RpcOutcomes
    /\ Inject(g, o)
    /\ LET d == DigestOf(req[g].body)
           l == Faulted([loc[g] EXCEPT !.fileDigest = d], o)
       IN  IF o = "ok"
           THEN /\ bsw' = bsw \cup {[uuid |-> g, digest |-> d]}
                /\ Continue(g, With(g, l), resp[g], tmpfiles, AfterCopy)
                /\ counted' = counted
           ELSE /\ bsw' = bsw
                /\ UploadReturns(g, l, faultWrap(RpcErr(o), "CAS upload failed"))
    /\ UNCHANGED <<token, mem, sup, stats, req, cas, ac, nreq, scopes, snap, exited>>

\* w.Close() of uploadToCAS: the write is committed, the blob is in CAS.
CloseWriter(g, o) ==
    /\ pc[g] = "ul_close"
    /\ ~exited
    /\ o \in RpcOutcomes
    /\ Inject(g, o)
    /\ bsw' = {w \in bsw : w.uuid # g}
    /\ LET l == Faulted(loc[g], o)
       IN  IF o = "ok"
           THEN /\ cas' = cas \cup {Blob(req[g].body)}
                /\ Continue(g, With(g, l), resp[g], tmpfiles, "ul_batch")
                /\ counted' = counted
           ELSE /\ cas' = cas
                /\ UploadReturns(g, l, faultWrap(RpcErr(o), "CAS upload failed"))
    /\ UNCHANGED <<token, mem, sup, stats, req, ac, nreq, scopes, snap, exited>>

\* BatchUpdateBlobs of the Command and the Action, and the loop over the
\* sub-responses.  "substatus": the RPC succeeds and the sub-response of the
\* Action carries a non-zero status code.
BatchUpdateBlobs(g, o) ==
    /\ pc[g] = "ul_batch"
    /\ ~exited
    /\ o \in BatchOutcomes
    /\ Inject(g, o)
    /\ LET protos == prepareACProtos(loc[g].key)
           err == RpcErr(o)
           l == Faulted([loc[g] EXCEPT !.batch = o, !.acProtos = protos], o)
       IN  IF err # NilErr
           THEN /\ cas' = cas
                /\ UploadReturns(g, l, faultWrap(err, "BatchUpdateBlobs failed"))
           ELSE IF o = "substatus"
           THEN /\ cas' = cas \cup {Blob(protos.command.data)}
                /\ UploadReturns(g, l, faultWrap(err, "BatchUpdateBlobs failed"))
           ELSE /\ cas' = cas \cup {Blob(protos.command.data),
                                    Blob(protos.action.data)}
                /\ Continue(g, With(g, l), resp[g], tmpfiles, "ul_ac")
                /\ counted' = counted
    /\ UNCHANGED <<token, mem, sup, stats, req, bsw, ac, nreq, scopes, snap, exited>>

\* An UpdateActionResult that the remote applies even when the call fails.
UpdateActionResultMutApplied(g, o) ==
    /\ pc[g] = "ul_ac"
    /\ ~exited
    /\ o \in RpcOutcomes
    /\ Inject(g, o)
    /\ LET protos == loc[g].acProtos
           l == Faulted(loc[g], o)
       IN  /\ ac' = (protos.action.digest.hash
                        :> NewActionResult(l.fileDigest, l.md)) @@ ac
           /\ UploadReturns(g, l, faultWrap(RpcErr(o), "UpdateActionResult failed"))
    /\ UNCHANGED <<token, mem, sup, stats, req, cas, bsw, nreq, scopes, snap, exited>>

\* UpdateActionResult, the last call of UploadFile.
UpdateActionResult(g, o) ==
    /\ pc[g] = "ul_ac"
    /\ ~exited
    /\ o \in RpcOutcomes
    /\ Inject(g, o)
    /\ LET protos == loc[g].acProtos
           err == RpcErr(o)
           l == Faulted(loc[g], o)
       IN  /\ ac' = IF err = NilErr
                    THEN (protos.action.digest.hash
                            :> NewActionResult(l.fileDigest, l.md)) @@ ac
                    ELSE ac
           /\ UploadReturns(g, l, faultWrap(err, "UpdateActionResult failed"))
    /\ UNCHANGED <<token, mem, sup, stats, req, cas, bsw, nreq, scopes, snap, exited>>

-----------------------------------------------------------------------------
(* package client against the remote: FindFile and DownloadFile *)

\* What GetActionResult may do: answer from the ActionCache ("ok"), fail
\* ("err"), or answer with an ActionResult that this proxy did not write:
\* one that has no output file at "cache_blob" ("noblob"), or one for the
\* stored blob whose auxiliary_metadata another writer has set, to two Any
\* entries ("twoany") or to one struct that holds a string and a number
\* ("mixed").
LocateOutcomes == {"ok", "err", "noblob", "twoany", "mixed"}

RewrittenOutcomes == {"twoany", "mixed"}

ForeignActionResult ==
    [output_files |-> <<[path |-> "bazel-out/bin", digest |-> NoDigest]>>,
     execution_metadata |-> <<>>]

\* The auxiliary_metadata of the other writer.
ForeignMetadata(o) ==
    IF o = "twoany"
    THEN <<[type_url |-> "type.googleapis.com/google.protobuf.Struct",
            fields |-> ("x-artifact-tag" :> StringValue("T"))],
           [type_url |-> "type.googleapis.com/google.protobuf.Struct",
            fields |-> ("x-artifact-duration" :> StringValue("42"))]>>
    ELSE <<[type_url |-> "type.googleapis.com/google.protobuf.Struct",
            fields |-> ("x-artifact-tag" :> StringValue("T"))
                       @@ ("x-artifact-duration" :> NumberValue("42"))]>>

\* The ActionResult that GetActionResult answers with, when it answers.
AnsweredActionResult(acv, d, o) ==
    IF o = "noblob" THEN ForeignActionResult
    ELSE IF o \in RewrittenOutcomes
    THEN [acv[d] EXCEPT !.execution_metadata =
            <<[auxiliary_metadata |-> ForeignMetadata(o)]>>]
    ELSE acv[d]

\* Another writer can only have rewritten an ActionResult that is there.
Answers(acv, key, o) ==
    o \in RewrittenOutcomes
        => prepareACProtos(key).action.digest.hash \in DOMAIN acv

\* A locateArtifact whose "no cache_blob" error is a gRPC NotFound.
locateArtifactMutNotFound(acv, key, o) ==
    LET d == prepareACProtos(key).action.digest.hash
        none == [err |-> NilErr, of |-> NoDigest, md |-> NoMetadata]
    IN  IF o = "err"
        THEN [none EXCEPT !.err = faultWrap(RpcErr(o), "GetActionResult failed")]
        ELSE IF o = "noblob" \/ d \notin DOMAIN acv
        THEN [none EXCEPT !.err = faultWrap(Error("not found", "NotFound"),
                                            "GetActionResult failed")]
        ELSE [err |-> NilErr,
              of |-> acv[d].output_files[IndexOfBlob(acv[d].output_files, 1)].digest,
              md |-> convertMetadataFromProto(GetAuxiliaryMetadata(acv[d]))]

\* locateArtifact: GetActionResult for the key's action digest, then the
\* output file "cache_blob" and the metadata.
locateArtifact(acv, key, o) ==
    LET d == prepareACProtos(key).action.digest.hash
        none == [err |-> NilErr, of |-> NoDigest, md |-> NoMetadata]
    IN  IF o = "err"
        THEN [none EXCEPT !.err = faultWrap(RpcErr(o), "GetActionResult failed")]
        ELSE IF o # "noblob" /\ d \notin DOMAIN acv
        THEN [none EXCEPT !.err = faultWrap(Error("not found", "NotFound"),
                                            "GetActionResult failed")]
        ELSE LET ar == AnsweredActionResult(acv, d, o)
                 idx == IndexOfBlob(ar.output_files, 1)
             IN  IF idx = 0
                 THEN [none EXCEPT !.err =
                        Error("cache blob not found amount output files", "")]
                 ELSE [err |-> NilErr,
                       of |-> ar.output_files[idx].digest,
                       md |-> convertMetadataFromProto(GetAuxiliaryMetadata(ar))]

\* A FindFile that reports every failure as "absent".
findFileMutAbsentOnError(found) ==
    [ok |-> found.err = NilErr, err |-> NilErr]

\* A FindFile that hands a NotFound on as an error.
findFileMutKeepNotFound(found) ==
    [ok |-> found.err = NilErr, err |-> found.err]

\* client.FindFile, given what locateArtifact returned: (ok, err); a NotFound
\* is "absent", any other error is returned.
findFile(found) ==
    [ok  |-> found.err = NilErr,
     err |-> IF found.err # NilErr /\ found.err.code # "NotFound"
             THEN found.err ELSE NilErr]

\* artifactExistsHandler: FindFile and the answer.
FindFile(g, o) ==
    /\ pc[g] = "find"
    /\ ~exited
    /\ o \in LocateOutcomes
    /\ Answers(ac, loc[g].key, o)
    /\ Inject(g, o)
    /\ LET found == locateArtifact(ac, loc[g].key, o)
           err == findFile(found).err
           ok == findFile(found).ok
           l == [Faulted(loc[g], o) EXCEPT !.ok = ok, !.err = err, !.located = o,
                                          !.acProtos = prepareACProtos(loc[g].key)]
       IN  IF err # NilErr
           THEN Decide(g, req[g], With(g, [l EXCEPT !.incs = logError]),
                       httpError("Error looking up file", 500), tmpfiles)
           ELSE IF ok
           THEN Decide(g, req[g],
                       With(g, [l EXCEPT !.incs = << <<"ExistsYesCount", 1>> >>]),
                       Response(200, "", NoMetadata), tmpfiles)
           ELSE Decide(g, req[g],
                       With(g, [l EXCEPT !.incs = << <<"ExistsNoCount", 1>> >>]),
                       Response(404, "", NoMetadata), tmpfiles)
    /\ UNCHANGED <<token, mem, sup, stats, req, cas, bsw, ac, nreq, scopes, counted, snap,
                   exited>>

\* A handler that answers every failed download with 500.
DownloadFailsMutAll500(g, l, err) ==
    Decide(g, req[g], With(g, [l EXCEPT !.incs = logError, !.err = err]),
           httpError("unable to download", 500), tmpfiles)

\* A handler that counts every failed download as not found.
DownloadFailsMutCountNotFound(g, l, err) ==
    Decide(g, req[g],
           With(g, [l EXCEPT !.incs = << <<"DownloadNotFoundCount", 1>> >>,
                             !.err = err]),
           IF err.code = "NotFound" THEN httpError("key not found", 404)
           ELSE httpError("unable to download", 500), tmpfiles)

\* A handler that counts nothing when the key is not found.
DownloadFailsMutUncounted(g, l, err) ==
    IF err.code = "NotFound"
    THEN Decide(g, req[g], With(g, [l EXCEPT !.err = err]),
                httpError("key not found", 404), tmpfiles)
    ELSE Decide(g, req[g], With(g, [l EXCEPT !.incs = logError, !.err = err]),
                httpError("unable to download", 500), tmpfiles)

\* downloadArtifactHandler after s.cl.DownloadFile failed with err.
DownloadFails(g, l, err) ==
    IF err.code = "NotFound"
    THEN Decide(g, req[g],
                With(g, [l EXCEPT !.incs = << <<"DownloadNotFoundCount", 1>> >>,
                                  !.err = err]),
                httpError("key not found", 404), tmpfiles)
    ELSE Decide(g, req[g], With(g, [l EXCEPT !.incs = logError, !.err = err]),
                httpError("unable to download", 500), tmpfiles)

\* DownloadFile, first half: locateArtifact.
LocateArtifact(g, o) ==
    /\ pc[g] = "locate"
    /\ ~exited
    /\ o \in LocateOutcomes
    /\ Answers(ac, loc[g].key, o)
    /\ Inject(g, o)
    /\ LET found == locateArtifact(ac, loc[g].key, o)
           l == Faulted([loc[g] EXCEPT !.located = o,
                                       !.acProtos = prepareACProtos(loc[g].key)], o)
       IN  IF found.err # NilErr
           THEN DownloadFails(g, l, found.err)
           ELSE Continue(g, With(g, [l EXCEPT !.of = found.of, !.md = found.md]),
                         resp[g], tmpfiles, "read")
    /\ UNCHANGED <<token, mem, sup, stats, req, cas, bsw, ac, nreq, scopes, counted, snap,
                   exited>>

\* The response headers of a download: Content-Type, then every metadata
\* entry whose value is a string, under its key (http.Header.Set stores the
\* canonical name).
DownloadHeaders(md) ==
    LET strings == {k \in DOMAIN md : md[k].kind = "string"}
    IN  [n \in {CanonicalMIMEHeaderKey(k) : k \in strings}
            |-> md[CHOOSE k \in strings : CanonicalMIMEHeaderKey(k) = n].v]
        @@ ("Content-Type" :> "application/octet-stream")

\* DownloadFile, second half: the bytestream read of blobs/<hash>/<size>
\* into the temp file; then the handler's answer.
ReadBlob(g, o) ==
    /\ pc[g] = "read"
    /\ ~exited
    /\ o \in RpcOutcomes
    /\ Inject(g, o)
    /\ LET l == Faulted(loc[g], o)
           held == {b \in cas : b.digest = l.of}
       IN  IF o = "err"
           THEN /\ DownloadFails(g, l, faultWrap(RpcErr(o),
                                    "fetching from bytestream client failed"))
                /\ counted' = counted
           ELSE IF held = {}
           THEN /\ DownloadFails(g, l,
                        faultWrap(Error("blob not found", "NotFound"),
                                  "fetching from bytestream client failed"))
                /\ counted' = counted
           ELSE LET data == (CHOOSE b \in held : TRUE).data
                IN  /\ Decide(g, req[g],
                            With(g, [l EXCEPT
                                !.file = data,
                                !.incs = << <<"DownloadCount", 1>>,
                                            <<"DownloadedBytes", Len(data)>> >>]),
                            Response(200, data, DownloadHeaders(l.md)), tmpfiles)
                    /\ counted' = [counted EXCEPT !.dl = Append(@, Len(data))]
    /\ UNCHANGED <<token, mem, sup, stats, req, cas, bsw, ac, nreq, scopes, snap, exited>>

-----------------------------------------------------------------------------
(* The specifications *)

LocalFailures == {"ok", "createtemp", "copy", "close"}

\* What a goroutine does once it serves a request.
Step(g) ==
    \/ \E o \in RpcOutcomes : UploadToCAS(g, o)
    \/ \E o \in RpcOutcomes : CloseWriter(g, o)
    \/ \E o \in BatchOutcomes : BatchUpdateBlobs(g, o)
    \/ \E o \in RpcOutcomes : UpdateActionResult(g, o)
    \/ \E o \in LocateOutcomes : FindFile(g, o)
    \/ \E o \in LocateOutcomes : LocateArtifact(g, o)
    \/ \E o \in RpcOutcomes : ReadBlob(g, o)
    \/ StatLoad(g)
    \/ StatStore(g)

\* The server as net/http runs it: every request on a goroutine of its own
\* (the first free one of the model), requests overlapping at will.
Serve(g, r, o) ==
    /\ \A p \in Procs : p < g => ~Idle(p)
    /\ Accept(g, r, o)
    /\ UNCHANGED sup

\* The child has exited and Main reads the statistics.
ChildExited == GetStatistics /\ UNCHANGED sup

Init == Start({""}) /\ sup = Started

Next ==
    \/ \E g \in FreeProcs, r \in ConcurrentRequests, o \in LocalFailures : Serve(g, r, o)
    \/ \E g \in Procs : Step(g)
    \/ ChildExited

Spec == Init /\ [][Next]_vars

\* The server driven as the package's tests drive it: one request at a time,
\* each served to its end before the next arrives (on the goroutine that did
\* not serve the one before, which keeps the last two exchanges in view).
ServeNext(g, r, o) ==
    /\ \A p \in Procs : Idle(p)
    /\ g = (IF lastAlone = 1 THEN 2 ELSE 1)
    /\ Accept(g, r, o)
    /\ UNCHANGED sup

InitSeq == Start(Tokens) /\ sup = Started

\* GetStatistics as the tests call it: between two requests.
ReadStatistics ==
    /\ \A p \in Procs : Idle(p)
    /\ ChildExited

NextSeq ==
    \/ \E g \in FreeProcs, r \in Requests, o \in LocalFailures : ServeNext(g, r, o)
    \/ \E g \in Procs : Step(g)
    \/ ReadStatistics

SpecSeq == InitSeq /\ [][NextSeq]_vars

-----------------------------------------------------------------------------
(* package cmd: Main *)

\* The state of the server and of the remote, which the steps of Main before
\* the listener is up leave alone.
serverVars == <<token, stats, pc, req, loc, resp, cas, bsw, ac, tmpfiles, nreq,
                faults, served, scopes, lastAlone, counted, snap, mem>>

Did(s, what) == [s EXCEPT !.trace = Append(@, what)]

\* A serverActuallyRuns that forgets Disabled.
serverActuallyRunsMutNotDisabled(s) == ~s.errorsIgnored

\* serverActuallyRuns
serverActuallyRuns(s) == ~s.errorsIgnored /\ ~s.opts.Disabled

\* A Main that aborts on a startup failure whatever IgnoreFailures says.
startFailedMutAbort(s, err) ==
    [s EXCEPT !.at = "returned", !.ret = Return(1, ZeroStats, FALSE, err)]

\* Main after startClientAndServer returned err: run the command all the
\* same under IgnoreFailures, return 1 and the error otherwise.
startFailed(s, err) ==
    IF s.opts.IgnoreFailures
    THEN [s EXCEPT !.errorsIgnored = TRUE, !.at = "spawn"]
    ELSE [s EXCEPT !.at = "returned", !.ret = Return(1, ZeroStats, FALSE, err)]

\* Main moves on to s; the process is gone once Main has returned.
MainGoes(s) ==
    /\ sup' = s
    /\ exited' = (s.at = "returned")
    /\ UNCHANGED serverVars

\* instantiateClient, first half: the blobs of opts.RemoteCacheTLS, none when
\* it is nil, go to client.NewClientConn.
NewClientConn(certs, o) ==
    /\ sup.at = "main" /\ ~sup.opts.Disabled
    /\ certs \in TLSCertsSet
    /\ o \in NewClientOutcomes
    /\ LET certPEM == IF certs.nil THEN "" ELSE certs.CertPEM
           keyPEM == IF certs.nil THEN "" ELSE certs.KeyPEM
           made == NewClientConnOf(certPEM, keyPEM, o)
           s == [Did(sup, "NewClientConn") EXCEPT
                    !.tls = certs, !.conn = made.cc, !.creds = made.creds,
                    !.connErr = made.err]
       IN  IF made.err # NilErr
           THEN MainGoes(startFailed(s,
                    faultWrap(made.err, "failed to create remote cache client")))
           ELSE MainGoes([s EXCEPT !.at = "caps"])

\* instantiateClient, second half: CheckCapabilities; cmd.cl is set when it
\* succeeded.
instantiateClient(c) ==
    /\ sup.at = "caps"
    /\ c \in CapabilityResponses
    /\ LET s == [Did(sup, "CheckCapabilities") EXCEPT !.capabilities = c]
           err == CheckCapabilities(c)
       IN  IF err # NilErr
           THEN MainGoes(startFailed(s,
                    faultWrap(err, "failed to create remote cache client")))
           ELSE MainGoes([s EXCEPT !.cl = TRUE, !.at = "listen"])

\* A startServer that builds the server and listens whether or not the
\* client is there.
ListensMutAnyway(s) == s.at \in {"caps", "listen"}

\* startServer is entered: only once instantiateClient has returned nil.
Listens(s) == s.at = "listen"

\* startServer, first half: server.NewServer, and the goroutine that runs
\* ListenAndServe, whose error is logged and nothing else.
ListenAndServe(l) ==
    /\ Listens(sup)
    /\ l \in ListenOutcomes
    /\ MainGoes([Did(Did(sup, "NewServer"), "ListenAndServe") EXCEPT
                    !.capabilities = NoCapabilities,
                    !.listener = l, !.at = "probe"])

\* A startServer that returns nil without keeping the server in cmd.srv.
startServerMutForgetSrv(s, code) ==
    LET got == [Did(s, "Get") EXCEPT !.probe = code]
        err == hcGet(code)
    IN  IF err # NilErr
        THEN startFailed(got, faultWrap(err, "failed to start proxy server"))
        ELSE [got EXCEPT !.at = "spawn"]

\* startServer, second half: hc.Get(serverCheckURL(addr)) was answered with
\* this status (0: never answered); only the error is looked at, and
\* cmd.srv is set when there is none.
startServer(s, code) ==
    LET got == [Did(s, "Get") EXCEPT !.probe = code]
        err == hcGet(code)
    IN  IF err # NilErr
        THEN startFailed(got, faultWrap(err, "failed to start proxy server"))
        ELSE [got EXCEPT !.srv = TRUE, !.at = "spawn"]

\* The readiness probe reaches this proxy's listener: the status handler
\* answers it (the handler touches nothing of the server's state).
ProbeOwn ==
    /\ sup.at = "probe" /\ sup.listener.state = "bound"
    /\ MainGoes(startServer(sup, StatusAnswer(token).code))

\* The readiness probe goes to an address that this proxy does not serve,
\* and hc.Get returns: the client and the request carry no timeout and no
\* deadline, so from a peer that never answers it does not return.
ProbeOther ==
    /\ sup.at = "probe" /\ sup.listener.state \in {"denied", "inuse"}
    /\ MainGoes(startServer(sup, sup.listener.answers))

\* What c.Start() may do.
StartOutcomes == {"ok", "err"}

\* A Main that injects the TURBO_* variables whenever AutoEnv is set.
cmdEnvironmentMutAlways(s) ==
    IF s.opts.AutoEnv
    THEN turboEnvironment(s.environ, s.opts.BindAddr)
    ELSE s.environ

\* The environment of the command: c.Env when Main sets it, the environment
\* of this process otherwise.
cmdEnvironment(s) ==
    IF serverActuallyRuns(s) /\ s.opts.AutoEnv
    THEN turboEnvironment(s.environ, s.opts.BindAddr)
    ELSE s.environ

\* exec.Command and c.Start(): at once when Disabled, else after
\* startClientAndServer.
StartCommand(o) ==
    /\ sup.at = "spawn" \/ (sup.at = "main" /\ sup.opts.Disabled)
    /\ o \in StartOutcomes
    /\ LET s == [Did(sup, "Start") EXCEPT !.cmdEnv = cmdEnvironment(sup)]
       IN  IF o = "err"
           THEN MainGoes([s EXCEPT
                    !.at = "returned",
                    !.ret = Return(1, ZeroStats, FALSE,
                                faultWrap(Error("exec: not found", ""),
                                          "error starting command"))])
           ELSE MainGoes([s EXCEPT !.at = "wait",
                                   !.child = [state |-> "running", code |-> 0]])

\* The requests that arrive while the command runs.
ChildRequests ==
    { Request("put", "k", NoQuery, NoHeaders, "yy"),
      Request("get", "k", NoQuery, NoHeaders, ""),
      Request("head", "k", NoQuery, NoHeaders, "") }

\* The proxy serves a request while the command runs.
ServeChild(g, r, o) ==
    /\ sup.at = "wait" /\ sup.listener.state = "bound"
    /\ ServeNext(g, r, o)

\* What c.Wait() may return: the command exited with a code, or an error
\* that is not an ExitError.
WaitOutcomes ==
    { [kind |-> "exit", code |-> 0], [kind |-> "exit", code |-> 3],
      [kind |-> "error", code |-> 0] }

\* A Main that returns 1 for every non-zero exit of the command.
exitCodeMutOne(o) == IF o.code = 0 THEN 0 ELSE 1

\* The exit code Main takes from c.Wait().
exitCode(o) == o.code

\* c.Wait() returns, then GetStatistics when the server actually runs, and
\* Main returns; its caller logs the summary of the stats it got when there
\* is no error.
Wait(o) ==
    /\ sup.at = "wait"
    /\ o \in WaitOutcomes
    /\ LET waited == Did(sup, "Wait")
           s == [(IF o.kind = "exit" /\ serverActuallyRuns(sup)
                  THEN Did(waited, "GetStatistics") ELSE waited) EXCEPT
                    !.at = "returned",
                    !.child = [state |-> IF o.kind = "exit" THEN "exited"
                                         ELSE "lost",
                               code |-> o.code]]
           serverStats == IF serverActuallyRuns(sup) THEN stats ELSE ZeroStats
       IN  /\ sup' = IF o.kind = "error"
                     THEN [s EXCEPT
                            !.ret = Return(1, ZeroStats, FALSE,
                                        faultWrap(Error("wait: no child", ""),
                                                  "error running command"))]
                     ELSE [s EXCEPT
                            !.ret = Return(exitCode(o), serverStats,
                                           sup.errorsIgnored, NilErr),
                            !.summary = SlogArgs(serverStats)]
           /\ snap' = IF o.kind = "error" THEN snap ELSE serverStats
    /\ exited' = TRUE
    /\ UNCHANGED <<token, stats, pc, req, loc, resp, cas, bsw, ac, tmpfiles, nreq,
                   faults, served, scopes, lastAlone, counted, mem>>

InitMain ==
    /\ Start({""})
    /\ sup \in {Entry(opts, environ) : opts \in OptionsSet, environ \in ParentEnvs}

NextMain ==
    \/ \E certs \in TLSCertsSet, o \in NewClientOutcomes : NewClientConn(certs, o)
    \/ \E c \in CapabilityResponses : instantiateClient(c)
    \/ \E l \in ListenOutcomes : ListenAndServe(l)
    \/ ProbeOwn
    \/ ProbeOther
    \/ \E o \in StartOutcomes : StartCommand(o)
    \/ \E g \in FreeProcs, r \in ChildRequests, o \in LocalFailures : ServeChild(g, r, o)
    \/ \E g \in Procs : Step(g)
    \/ \E o \in WaitOutcomes : Wait(o)

SpecMain == InitMain /\ [][NextMain]_vars

\* The steps of Main itself.
MainStep ==
    \/ \E certs \in TLSCertsSet, o \in NewClientOutcomes : NewClientConn(certs, o)
    \/ \E c \in CapabilityResponses : instantiateClient(c)
    \/ \E l \in ListenOutcomes : ListenAndServe(l)
    \/ ProbeOwn
    \/ ProbeOther
    \/ \E o \in StartOutcomes : StartCommand(o)
    \/ \E o \in WaitOutcomes : Wait(o)

\* Main is scheduled as long as a call it makes returns, and the command,
\* once started, ends; nothing is asked of the handlers.
SpecMainFair == SpecMain /\ WF_vars(MainStep)

-----------------------------------------------------------------------------
(* What the claims speak of *)

\* The value a request sent under a header name, matched without regard to
\* case; "" when it sent none.
Sent(r, name) ==
    LET at == {i \in 1..Len(r.hdrs) :
                 CanonicalMIMEHeaderKey(r.hdrs[i][1]) = CanonicalMIMEHeaderKey(name)}
    IN  IF at = {} THEN ""
        ELSE r.hdrs[CHOOSE i \in at : \A j \in at : i <= j][2]

Authorized(r) == token = "" \/ Sent(r, "Authorization") = "Bearer " \o token

Completed(g) == pc[g] = "done" /\ req[g].kind # "none"

ArtifactHeaders == {"X-Artifact-Duration", "X-Artifact-Tag"}

\* The sum of the entries of sizes at the indices in S.
RECURSIVE SumAt(_, _)
SumAt(sizes, S) ==
    IF S = {} THEN 0
    ELSE LET i == CHOOSE x \in S : TRUE
         IN  sizes[i] + SumAt(sizes, S \ {i})

-----------------------------------------------------------------------------
(* C1 *)

\* C1: after a PUT answered 202, a GET with the same hash and the same
\* teamId/slug parameters, served right after it by a healthy remote, answers
\* 200 with the PUT's body and with x-artifact-duration and x-artifact-tag
\* equal to the non-empty values the PUT sent (unset when it sent none).
RoundTrip ==
    \A g \in Procs, h \in Procs :
        ( /\ Completed(g) /\ req[g].kind = "get"
          /\ loc[g].alone /\ loc[g].pred = h
          /\ Completed(h) /\ req[h].kind = "put" /\ loc[h].alone
          /\ resp[h].code = 202
          /\ req[h].hash = req[g].hash /\ req[h].query = req[g].query
          /\ Authorized(req[g]) /\ ~loc[g].faulted )
        => /\ resp[g].code = 200
           /\ resp[g].body = req[h].body
           /\ \A n \in ArtifactHeaders :
                IF Sent(req[h], n) # ""
                THEN /\ n \in DOMAIN resp[g].headers
                     /\ resp[g].headers[n] = Sent(req[h], n)
                ELSE n \notin DOMAIN resp[g].headers

-----------------------------------------------------------------------------
(* C2 *)

\* The '/'-join of the slug value if slug is present, the teamId value if
\* teamId is present, and the hash.
CanonicalKey(r) ==
    LET parts == << r.query.slug, r.query.teamId, Present(r.hash) >>
        RECURSIVE Kept(_)
        Kept(i) == IF i > Len(parts) THEN <<>>
                   ELSE IF parts[i].has THEN <<parts[i].val>> \o Kept(i + 1)
                   ELSE Kept(i + 1)
    IN  Join(Kept(1))

\* C2: for every PUT, HEAD or GET on /v8/artifacts/{hash}, the key handed to
\* the client is the '/'-join of slug (if present), teamId (if present) and
\* hash, in this order; presence, not non-emptiness, gates inclusion.
KeyCanonical ==
    \A g \in Procs :
        loc[g].call.op # ""
        => /\ req[g].kind \in {"put", "head", "get"}
           /\ loc[g].call.key = CanonicalKey(req[g])

\* A request whose slug is present and empty and one with both parameters
\* have been handed to the client.
KeyCanonicalWitness ==
    \E g \in Procs, h \in Procs :
        /\ loc[g].call.op # "" /\ req[g].query.slug = Present("")
        /\ loc[g].call.key = "/k"
        /\ loc[h].call.op # "" /\ req[h].query.slug.has /\ req[h].query.teamId.has
        /\ loc[h].call.key = "a/b/k"

-----------------------------------------------------------------------------
(* C3 *)

\* C3: an artifact uploaded under one (slug, teamId) pair is inaccessible
\* from any other pair: a HEAD or GET under a pair answers 200 only if
\* something was uploaded under that very pair.
ScopeIsolation ==
    \A g \in Procs :
        (Completed(g) /\ req[g].kind \in {"head", "get"} /\ resp[g].code = 200)
        => ScopeOf(req[g]) \in scopes

-----------------------------------------------------------------------------
(* C4 *)

\* The entries of the allowlist whose header the request sent non-empty.
AllowedMetadata(r) ==
    [n \in {a \in {"x-artifact-duration", "x-artifact-tag"} : Sent(r, a) # ""}
        |-> StringValue(Sent(r, n))]

\* C4: the metadata a PUT passes to UploadFile holds exactly the entries
\* x-artifact-duration and x-artifact-tag whose request header (matched
\* case-insensitively) has a non-empty value, with the value unchanged; and
\* no header outside the allowlist comes back on a download.
MetadataFiltered ==
    /\ \A g \in Procs :
        loc[g].call.op = "UploadFile" => loc[g].call.md = AllowedMetadata(req[g])
    /\ \A g \in Procs :
        (Completed(g) /\ req[g].kind = "get" /\ resp[g].code = 200)
        => DOMAIN resp[g].headers \subseteq ArtifactHeaders \cup {"Content-Type"}

\* A PUT that sent an empty x-artifact-duration, a header outside the
\* allowlist and an upper-case X-ARTIFACT-TAG was stored, and the GET after
\* it came back with the tag only.
MetadataFilteredWitness ==
    \E g \in Procs, h \in Procs :
        /\ Completed(h) /\ req[h].kind = "put" /\ resp[h].code = 202
        /\ Sent(req[h], "X-Artifact-Client-Ci") = "TEST"
        /\ req[h].hdrs[1] = <<"x-artifact-duration", "">>
        /\ loc[h].call.md = ("x-artifact-tag" :> StringValue("T"))
        /\ Completed(g) /\ req[g].kind = "get" /\ loc[g].pred = h
        /\ resp[g].code = 200
        /\ DOMAIN resp[g].headers = {"Content-Type", "X-Artifact-Tag"}

-----------------------------------------------------------------------------
(* C5 *)

\* What holds of every request the server has taken up.
GateInv ==
    \A g \in Procs :
        req[g].kind # "none"
        => IF Authorized(req[g])
           THEN loc[g].ran /\ resp[g].code # 403
           ELSE /\ pc[g] = "done" /\ resp[g].code = 403
                /\ ~loc[g].ran /\ loc[g].call = NoCall /\ loc[g].incs = <<>>
                /\ loc[g].size = 0 /\ g \notin tmpfiles

\* A step that answers 403 leaves the counters, the remote and the temp files
\* alone.
GateFrame ==
    (\E g \in Procs : /\ nreq' = nreq + 1
                      /\ lastAlone # g /\ lastAlone' = g
                      /\ resp'[g].code = 403)
    => UNCHANGED <<stats, cas, bsw, ac, tmpfiles, counted>>

\* C5: with a token configured, a request whose Authorization header is not
\* exactly "Bearer <token>" is answered 403 and its handler never runs (no
\* body read, no temp file, no client call, no counter changed); a request
\* with the exact header is handled; with no token nothing is answered 403.
BearerGate == []GateInv /\ [][GateFrame]_vars

\* With a token configured, a request with a wrong header was answered 403
\* and the one after it, with the right header, was stored.
BearerGateWitness ==
    /\ token = "t0k3n"
    /\ \E g \in Procs, h \in Procs :
        /\ Completed(h) /\ Sent(req[h], "Authorization") = "t0k3n"
        /\ resp[h].code = 403
        /\ Completed(g) /\ Sent(req[g], "Authorization") = "Bearer t0k3n"
        /\ req[g].kind = "put" /\ resp[g].code = 202

-----------------------------------------------------------------------------
(* C6 *)

\* The remote holds the upload of goroutine g: the blob is in CAS and the
\* ActionCache entry of the key points at it, with the metadata.
Stored(g) ==
    LET d == prepareACProtos(CanonicalKey(req[g])).action.digest.hash
    IN  /\ Blob(req[g].body) \in cas
        /\ d \in DOMAIN ac
        /\ Len(ac[d].output_files) = 1
        /\ ac[d].output_files[1] =
              [path |-> "cache_blob", digest |-> DigestOf(req[g].body)]
        /\ convertMetadataFromProto(GetAuxiliaryMetadata(ac[d]))
              = AllowedMetadata(req[g])

\* C6: whenever UploadFile returns success (the PUT answers 202 and counts an
\* upload), the blob is in CAS and the ActionCache holds, under the key's
\* action digest, an ActionResult that points at it with the metadata.
UploadSuccessStored ==
    \A g \in Procs :
        ( /\ req[g].kind = "put" /\ resp[g].code = 202
          /\ pc[g] \in {"stat_ld", "stat_st"} /\ loc[g].alone )
        => Stored(g)

-----------------------------------------------------------------------------
(* C7 *)

\* C7: if a sub-response of BatchUpdateBlobs carries a non-zero status code,
\* the upload fails: UpdateActionResult is not called and the PUT answers 500
\* "unable to upload" and counts an error, not an upload.
BatchFailureFailsUpload ==
    \A g \in Procs :
        loc[g].batch = "substatus"
        => /\ pc[g] # "ul_ac"
           /\ resp[g].code = 500
           /\ resp[g].body = "unable to upload\n"
           /\ \A i \in 1..Len(loc[g].incs) : loc[g].incs[i][1] = "ErrorsCount"

-----------------------------------------------------------------------------
(* C8 *)

\* C8: a key is never observed half-uploaded: whatever GetActionResult
\* returns, in every interleaving, references a blob that is completely in
\* CAS, as are the Action and the Command it stands on; so a download that
\* has located its artifact finds the blob.
NeverHalfUploaded ==
    /\ \A d \in DOMAIN ac :
        /\ \A i \in 1..Len(ac[d].output_files) :
                \E b \in cas : b.digest = ac[d].output_files[i].digest
        /\ \E a \in cas :
                /\ a.digest.hash = d
                /\ \E c \in cas : a.data = MarshalAction(c.digest)
    /\ \A g \in Procs :
        pc[g] = "read" => \E b \in cas : b.digest = loc[g].of

\* A download has located the ActionResult of an upload whose handler has
\* not yet returned, while nothing else of the key was ever stored.
NeverHalfUploadedWitness ==
    \E g \in Procs, h \in Procs :
        /\ pc[g] = "read"
        /\ req[h].kind = "put" /\ pc[h] \in {"stat_ld", "stat_st"}
        /\ loc[h].key = loc[g].key
        /\ loc[g].of = loc[h].fileDigest
        /\ nreq = 2

-----------------------------------------------------------------------------
(* C9 *)

\* C9: once the requests handled concurrently have completed, every counter
\* equals the number (or the byte sum) of the corresponding responses: no
\* increment is lost in any interleaving.
StatsConserved ==
    (\A g \in Procs : Idle(g))
    => /\ stats.UploadCount = served.put202
       /\ stats.UploadedBytes = served.ulBytes
       /\ stats.DownloadCount = served.get200
       /\ stats.DownloadedBytes = served.dlBytes
       /\ stats.ExistsYesCount = served.head200
       /\ stats.ExistsNoCount = served.head404
       /\ stats.DownloadNotFoundCount = served.get404
       /\ stats.ErrorsCount = served.c5xx

-----------------------------------------------------------------------------
(* C10 *)

\* n requests out of those whose sizes are listed add up to bytes.
FullyCounted(n, bytes, sizes) ==
    \E S \in SUBSET (1..Len(sizes)) :
        Cardinality(S) = n /\ SumAt(sizes, S) = bytes

\* C10: what GetStatistics returns, also while requests are in flight,
\* corresponds to a set of fully counted requests: ul_bytes is the byte sum of
\* exactly the uploads counted in uploads, and dl_bytes that of the downloads.
SnapshotConsistent ==
    exited
    => /\ FullyCounted(snap.UploadCount, snap.UploadedBytes, counted.ul)
       /\ FullyCounted(snap.DownloadCount, snap.DownloadedBytes, counted.dl)

-----------------------------------------------------------------------------
(* C11 *)

StatsFields == DOMAIN ZeroStats

\* C11: every counter is monotonic during a run: in any interleaving of
\* requests (no ResetStatistics), no counter is ever smaller than it was
\* before, and all counters start at zero.
StatsMonotonic ==
    /\ (nreq = 0 => stats = ZeroStats)
    /\ [][\A f \in StatsFields : stats'[f] >= stats[f]]_vars

-----------------------------------------------------------------------------
(* C12 *)

\* Request g was served alone and was the last to complete: Server.stats is
\* what it left behind.
JustServed(g) ==
    /\ Completed(g) /\ loc[g].ran /\ loc[g].alone
    /\ lastAlone = g /\ \A p \in Procs : Idle(p)

\* The counters changed between the arrival of request g and now.
Changed(g) == {f \in StatsFields : stats[f] # loc[g].before[f]}

\* Counter f grew by n while request g was served.
Grew(g, f, n) == stats[f] = loc[g].before[f] + n

\* C12: a PUT whose body was stored and whose UploadFile succeeded answers 202
\* with body {"urls":[]} and increments uploads by 1 and ul_bytes by the
\* number of body bytes, leaving every other counter unchanged; a PUT that
\* fails at any step answers 500 "unable to upload", increments errors by 1
\* and leaves uploads and ul_bytes unchanged.
UploadOutcome ==
    \A g \in Procs :
        (JustServed(g) /\ req[g].kind = "put")
        => IF loc[g].err = NilErr
           THEN /\ resp[g].code = 202
                /\ resp[g].body \in {"{\"urls\":[]}", "{\"urls\":[]}\n"}
                /\ Grew(g, "UploadCount", 1)
                /\ Grew(g, "UploadedBytes", Len(req[g].body))
                /\ Changed(g) \subseteq {"UploadCount", "UploadedBytes"}
           ELSE /\ resp[g].code = 500
                /\ resp[g].body = "unable to upload\n"
                /\ Grew(g, "ErrorsCount", 1)
                /\ Changed(g) = {"ErrorsCount"}

-----------------------------------------------------------------------------
(* C13 *)

\* The ActionCache holds an ActionResult under the action digest of key.
InActionCache(key) == prepareACProtos(key).action.digest.hash \in DOMAIN ac

\* The step is one of a handler serving a request of this kind.
StepOf(kind) ==
    \E g \in Procs : /\ req'[g].kind = kind
                     /\ (pc'[g] # pc[g] \/ req'[g] # req[g])

\* What holds of a HEAD when it has been answered.
ExistsAnswered ==
    \A g \in Procs :
        (JustServed(g) /\ req[g].kind = "head")
        => /\ loc[g].call = [op |-> "FindFile", key |-> CanonicalKey(req[g]),
                             md |-> NoMetadata]
           /\ ~loc[g].faulted => (loc[g].err = NilErr
                                  /\ loc[g].ok = InActionCache(CanonicalKey(req[g])))
           /\ IF loc[g].err # NilErr
              THEN /\ resp[g].code = 500
                   /\ Grew(g, "ErrorsCount", 1)
                   /\ Changed(g) = {"ErrorsCount"}
              ELSE IF loc[g].ok
              THEN /\ resp[g].code = 200
                   /\ Grew(g, "ExistsYesCount", 1)
                   /\ Changed(g) = {"ExistsYesCount"}
              ELSE /\ resp[g].code = 404
                   /\ Grew(g, "ExistsNoCount", 1)
                   /\ Changed(g) = {"ExistsNoCount"}

\* C13: a HEAD answers 200 and increments only exists_yes when FindFile
\* reports the canonical key present, 404 and only exists_no when it reports
\* absent, 500 and only errors when FindFile returns an error; no step of the
\* handler modifies the store.
ExistsOutcome ==
    /\ []ExistsAnswered
    /\ [][StepOf("head") => UNCHANGED <<cas, bsw, ac>>]_vars

\* A HEAD found the key that the PUT before it had stored.
ExistsOutcomeWitness ==
    \E g \in Procs :
        /\ JustServed(g) /\ req[g].kind = "head" /\ resp[g].code = 200
        /\ loc[g].pred # 0 /\ req[loc[g].pred].kind = "put"
        /\ stats.ExistsYesCount = 1 /\ stats.UploadCount = 1

-----------------------------------------------------------------------------
(* C14 *)

\* The blob the ActionCache entry of key points at, "" when CAS has none.
StoredBytes(key) ==
    LET d == prepareACProtos(key).action.digest.hash
        held == {b \in cas : b.digest = ac[d].output_files[1].digest}
    IN  IF held = {} THEN "" ELSE (CHOOSE b \in held : TRUE).data

\* C14: a GET whose DownloadFile succeeds answers 200 with the blob and
\* increments downloads by 1 and dl_bytes by the size of the fetched file; a
\* DownloadFile error of gRPC code NotFound answers 404 "key not found" and
\* increments only downloads_not_found; any other error answers 500 "unable
\* to download" and increments only errors.
DownloadOutcome ==
    \A g \in Procs :
        (JustServed(g) /\ req[g].kind = "get")
        => /\ loc[g].call \in {NoCall, [op |-> "DownloadFile",
                                        key |-> CanonicalKey(req[g]),
                                        md |-> NoMetadata]}
           /\ IF loc[g].err = NilErr
              THEN /\ resp[g].code = 200
                   /\ InActionCache(CanonicalKey(req[g]))
                   /\ resp[g].body = StoredBytes(CanonicalKey(req[g]))
                   /\ Grew(g, "DownloadCount", 1)
                   /\ Grew(g, "DownloadedBytes", Len(resp[g].body))
                   /\ Changed(g) = {"DownloadCount", "DownloadedBytes"}
              ELSE IF loc[g].err.code = "NotFound"
              THEN /\ resp[g].code = 404
                   /\ resp[g].body = "key not found\n"
                   /\ Grew(g, "DownloadNotFoundCount", 1)
                   /\ Changed(g) = {"DownloadNotFoundCount"}
              ELSE /\ resp[g].code = 500
                   /\ resp[g].body = "unable to download\n"
                   /\ Grew(g, "ErrorsCount", 1)
                   /\ Changed(g) = {"ErrorsCount"}

\* A GET fetched the two bytes that the PUT before it had stored.
DownloadOutcomeWitness ==
    \E g \in Procs, h \in Procs :
        /\ JustServed(g) /\ req[g].kind = "get" /\ resp[g].code = 200
        /\ loc[g].pred = h /\ req[h].kind = "put" /\ req[h].body = "yy"
        /\ resp[g].body = "yy"
        /\ stats.DownloadCount = 1 /\ stats.DownloadedBytes = 2

-----------------------------------------------------------------------------
(* C15 *)

\* GetActionResult answered the GET of goroutine g with an ActionResult that
\* has no output file at "cache_blob".
LacksCacheBlob(g) ==
    JustServed(g) /\ req[g].kind = "get" /\ loc[g].located = "noblob"

\* GetActionResult answered the GET of goroutine g with NotFound.
RemoteNotFound(g) ==
    /\ JustServed(g) /\ req[g].kind = "get" /\ loc[g].located = "ok"
    /\ ~InActionCache(CanonicalKey(req[g]))

\* C15 as stated: when the ActionResult has no output file "cache_blob",
\* DownloadFile fails with a distinct error and the GET answers 404, the same
\* status as for a NotFound from GetActionResult.
MissingBlobIs404 ==
    \A g \in Procs :
        LacksCacheBlob(g) => (loc[g].err # NilErr /\ resp[g].code = 404)

\* C15 as amended: when the ActionResult has no output file "cache_blob",
\* DownloadFile fails with an error that is distinct from a NotFound (it
\* carries no gRPC NotFound code) and the GET answers 500 "unable to
\* download"; a NotFound from GetActionResult answers 404.
MissingBlobIs500 ==
    \A g \in Procs :
        /\ LacksCacheBlob(g)
            => /\ loc[g].err # NilErr /\ loc[g].err.code # "NotFound"
               /\ resp[g].code = 500
               /\ resp[g].body = "unable to download\n"
        /\ RemoteNotFound(g)
            => /\ loc[g].err.code = "NotFound"
               /\ resp[g].code = 404

\* A GET was answered from an ActionResult without "cache_blob".
MissingBlobIs500Witness ==
    \E g \in Procs :
        /\ LacksCacheBlob(g) /\ resp[g].code = 500
        /\ loc[g].err.msg = "cache blob not found amount output files"

-----------------------------------------------------------------------------
(* C16 *)

\* C16: downloads_not_found is incremented for a remote NotFound on GET but
\* not when the ActionResult exists and lacks the "cache_blob" output file:
\* that case answers 500 and increments errors.
NotFoundCounting ==
    \A g \in Procs :
        /\ RemoteNotFound(g)
            => /\ Grew(g, "DownloadNotFoundCount", 1)
               /\ Grew(g, "ErrorsCount", 0)
        /\ LacksCacheBlob(g)
            => /\ Grew(g, "DownloadNotFoundCount", 0)
               /\ Grew(g, "ErrorsCount", 1)
               /\ resp[g].code = 500

\* One GET met a NotFound and the next an ActionResult without "cache_blob".
NotFoundCountingWitness ==
    \E g \in Procs, h \in Procs :
        /\ LacksCacheBlob(g) /\ loc[g].pred = h
        /\ req[h].kind = "get" /\ resp[h].code = 404
        /\ stats.DownloadNotFoundCount = 1 /\ stats.ErrorsCount = 1

-----------------------------------------------------------------------------
(* C17 *)

\* C17: staging temp files never outlive their request: a temp file exists
\* only while the upload or download handler that created it is running, so
\* once the requests have completed, in any interleaving, none remains.
NoTempFileLeft ==
    /\ \A g \in tmpfiles : ~Idle(g) /\ req[g].kind \in {"put", "get"}
    /\ (\A g \in Procs : Idle(g)) => tmpfiles = {}

\* An upload that failed after its temp file was written and a download that
\* was answered 404 have both returned, and no temp file is left.
NoTempFileLeftWitness ==
    /\ tmpfiles = {}
    /\ \E g \in Procs, h \in Procs :
        /\ Completed(g) /\ req[g].kind = "put" /\ resp[g].code = 500
        /\ loc[g].call.op = "UploadFile"
        /\ Completed(h) /\ req[h].kind = "get" /\ resp[h].code = 404
        /\ loc[h].call.op = "DownloadFile"

-----------------------------------------------------------------------------
(* C18 *)

\* What a download of key returns from the store as it is: the bytes and the
\* metadata, or none.
Downloaded(key) ==
    LET found == locateArtifact(ac, key, "ok")
        held == {b \in cas : b.digest = found.of}
    IN  IF found.err # NilErr \/ held = {} THEN [none |-> TRUE]
        ELSE [bytes |-> (CHOOSE b \in held : TRUE).data, md |-> found.md]

\* What the PUT of goroutine g uploaded.
Uploaded(g) == [bytes |-> req[g].body, md |-> AllowedMetadata(req[g])]

\* The PUT of goroutine g has completed with 202.
UploadCompleted(g) == Completed(g) /\ req[g].kind = "put" /\ resp[g].code = 202

\* C18: when two uploads of the same canonical key ran concurrently and both
\* completed, both blobs are in CAS and a download returns the bytes and the
\* metadata of one of them, never a mix; when they ran one after the other,
\* the download returns the bytes and the metadata of the later one.
LastWriterWins ==
    \A g \in Procs, h \in Procs :
        ( /\ g # h /\ UploadCompleted(g) /\ UploadCompleted(h)
          /\ CanonicalKey(req[g]) = CanonicalKey(req[h])
          /\ \A p \in Procs : Idle(p) )
        => /\ Blob(req[g].body) \in cas /\ Blob(req[h].body) \in cas
           /\ Downloaded(CanonicalKey(req[g])) \in {Uploaded(g), Uploaded(h)}
           /\ (loc[g].alone /\ loc[g].pred = h)
                => Downloaded(CanonicalKey(req[g])) = Uploaded(g)

-----------------------------------------------------------------------------
(* C19 *)

\* The request of goroutine g was served with nothing failing, from the start
\* of the run on: the remote accepted every write.
ServedByHealthyRemote(g) == JustServed(g) /\ faults = 0 /\ loc[g].call.op # ""

-----------------------------------------------------------------------------
(* C20 *)

\* The ActionResult the claim describes for the PUT of goroutine g.
ExpectedActionResult(g) ==
    [output_files |->
        <<[path |-> "cache_blob",
           digest |-> [hash |-> Sha256Hex(req[g].body),
                       size_bytes |-> Len(req[g].body)]]>>,
     execution_metadata |->
        IF AllowedMetadata(req[g]) = NoMetadata THEN <<>>
        ELSE <<[auxiliary_metadata |->
                  <<[type_url |-> "type.googleapis.com/google.protobuf.Struct",
                     fields |-> AllowedMetadata(req[g])]>>]>>]

\* The shape of every ActionResult in the ActionCache.
ActionResultShape ==
    \A d \in DOMAIN ac :
        /\ Len(ac[d].output_files) = 1
        /\ ac[d].output_files[1].path = "cache_blob"
        /\ Len(ac[d].execution_metadata) <= 1
        /\ ac[d].execution_metadata # <<>>
            => /\ Len(ac[d].execution_metadata[1].auxiliary_metadata) = 1
               /\ DOMAIN ac[d].execution_metadata[1].auxiliary_metadata[1].fields # {}

\* UpdateActionResult of goroutine g succeeds in this step.
Wrote(g) == pc[g] = "ul_ac" /\ pc'[g] # "ul_ac" /\ resp'[g].code = 202

\* C20: every ActionResult that UploadFile writes has exactly one output
\* file, with path "cache_blob" and the digest (hex SHA-256, byte size) of the
\* uploaded file; it holds exactly one Any-wrapped struct of metadata when the
\* metadata map is non-empty, and no execution_metadata when the map is empty.
ActionResultWritten ==
    /\ []ActionResultShape
    /\ [][\A g \in Procs :
            Wrote(g) =>
                ac'[prepareACProtos(CanonicalKey(req[g])).action.digest.hash]
                    = ExpectedActionResult(g)]_vars

\* The ActionCache holds an ActionResult with metadata and one without.
ActionResultWrittenWitness ==
    \E d \in DOMAIN ac, e \in DOMAIN ac :
        /\ ac[d].execution_metadata = <<>>
        /\ Len(ac[e].execution_metadata) = 1

-----------------------------------------------------------------------------
(* C21 *)

\* FindFile was called for the request of goroutine g and has returned.
FindFileReturned(g) == JustServed(g) /\ loc[g].call.op = "FindFile"

\* GetActionResult failed with status NotFound in that call.
GetActionResultNotFound(g) ==
    loc[g].located = "ok" /\ ~InActionCache(loc[g].call.key)

\* GetActionResult answered with an ActionResult in that call.
GetActionResultSucceeded(g) ==
    loc[g].located # "err" /\ ~GetActionResultNotFound(g)

\* C21: FindFile returns (absent, no error) exactly when GetActionResult
\* failed with status NotFound; any other error, a transport failure
\* included, comes back as an error and never as absent; FindFile returns
\* present only when GetActionResult succeeded.
FindFileContract ==
    \A g \in Procs :
        FindFileReturned(g)
        => /\ (~loc[g].ok /\ loc[g].err = NilErr) <=> GetActionResultNotFound(g)
           /\ loc[g].located = "err"
                => (~loc[g].ok /\ loc[g].err.code = "Unavailable")
           /\ loc[g].located = "noblob" => (~loc[g].ok /\ loc[g].err # NilErr)
           /\ loc[g].ok => (GetActionResultSucceeded(g) /\ loc[g].err = NilErr)

\* A FindFile whose GetActionResult failed in transport returned the error,
\* after a FindFile of a key never uploaded had returned absent.
FindFileContractWitness ==
    \E g \in Procs, h \in Procs :
        /\ FindFileReturned(g) /\ loc[g].located = "err"
        /\ loc[g].err.code = "Unavailable" /\ resp[g].code = 500
        /\ loc[g].pred = h /\ loc[h].call.op = "FindFile"
        /\ loc[h].located = "ok" /\ ~loc[h].ok /\ loc[h].err = NilErr

-----------------------------------------------------------------------------
(* C22 *)

\* CheckCapabilities has returned in this state, and nothing ran since.
CapabilitiesChecked == sup.capabilities.rpc # ""

\* The capabilities that the response reports.
ReportsSHA256(c) ==
    /\ ~c.cache_capabilities.nil
    /\ \E i \in DOMAIN c.cache_capabilities.digest_functions :
            c.cache_capabilities.digest_functions[i] = "SHA256"

ReportsUpdateEnabled(c) ==
    /\ ~c.cache_capabilities.nil
    /\ ~c.cache_capabilities.action_cache_update_capabilities.nil
    /\ c.cache_capabilities.action_cache_update_capabilities.update_enabled

\* C22: CheckCapabilities succeeds if and only if the GetCapabilities RPC
\* succeeded, the digest functions it reports contain SHA-256 and the
\* action-cache update_enabled is true; otherwise it returns an error, which
\* instantiateClient hands to Main (the client is not kept, and Main either
\* returns the error or notes it as ignored).
CapabilitiesContract ==
    CapabilitiesChecked
    => LET c == sup.capabilities
           good == c.rpc = "ok" /\ ReportsSHA256(c) /\ ReportsUpdateEnabled(c)
       IN  /\ sup.cl <=> good
           /\ good => (sup.at = "listen" /\ ~sup.errorsIgnored /\ ~sup.ret.returned)
           /\ ~good =>
                IF sup.opts.IgnoreFailures THEN sup.errorsIgnored
                ELSE sup.ret.returned /\ sup.ret.err # NilErr

\* CheckCapabilities accepted a remote that lists SHA-256 after MD5 and
\* allows ActionCache updates.
CapabilitiesContractWitness ==
    /\ CapabilitiesChecked /\ sup.cl
    /\ sup.capabilities.cache_capabilities.digest_functions = <<"MD5", "SHA256">>
    /\ sup.capabilities.cache_capabilities.action_cache_update_capabilities
            = UpdateCapabilities(TRUE)

-----------------------------------------------------------------------------
(* C23 *)

\* Main has made this call.
Done(what) == \E i \in DOMAIN sup.trace : sup.trace[i] = what

\* The place of the call in the order of Main's calls, 0 when not made.
Pos(what) ==
    IF Done(what) THEN CHOOSE i \in DOMAIN sup.trace : sup.trace[i] = what
    ELSE 0

\* instantiateClient has returned an error.
ClientStepFailed == Done("NewClientConn") /\ sup.at # "caps" /\ ~sup.cl

\* C23: in a run of Main that is not disabled and ignored no failure, the
\* command is started only after CheckCapabilities has succeeded and after
\* the readiness probe has returned successfully, in that order; the server
\* is constructed only after CheckCapabilities succeeded, and never when the
\* client step failed.
SupervisorOrder ==
    /\ (Done("Start") /\ ~sup.opts.Disabled /\ ~sup.errorsIgnored)
        => /\ sup.cl /\ sup.srv /\ hcGet(sup.probe) = NilErr
           /\ 0 < Pos("CheckCapabilities")
           /\ Pos("CheckCapabilities") < Pos("Get")
           /\ Pos("Get") < Pos("Start")
    /\ Done("NewServer")
        => /\ sup.cl
           /\ 0 < Pos("CheckCapabilities")
           /\ Pos("CheckCapabilities") < Pos("NewServer")
    /\ ClientStepFailed
        => ~Done("NewServer") /\ ~Done("ListenAndServe") /\ ~Done("Get")

\* The command runs behind a proxy that was brought up in order.
SupervisorOrderWitness ==
    /\ sup.at = "wait" /\ ~sup.opts.Disabled /\ ~sup.errorsIgnored
    /\ sup.trace = <<"NewClientConn", "CheckCapabilities", "NewServer",
                     "ListenAndServe", "Get", "Start">>
    /\ sup.listener.state = "bound" /\ sup.probe = 200

-----------------------------------------------------------------------------
(* C24 *)

\* startClientAndServer has returned an error: creating the client, the
\* capability check or the server start failed.
StartupFailed ==
    /\ ~sup.opts.Disabled /\ Done("NewClientConn")
    /\ sup.at \in {"spawn", "wait", "returned"}
    /\ ~(sup.cl /\ sup.srv)

\* Some TURBO_* variable was added to the environment of the command.
Injected == sup.cmdEnv # sup.environ

-----------------------------------------------------------------------------
(* C25 *)

\* The command was given a TURBO_API that points at the bind address.
PointedAtProxy ==
    /\ Done("Start")
    /\ \E i \in DOMAIN sup.cmdEnv :
        sup.cmdEnv[i] = "TURBO_API=" \o serverBaseURL(sup.opts.BindAddr)

\* C25: startServer succeeds only if the GET of /v8/artifacts/status on the
\* bind address was answered with a 2xx status by this proxy's listener; when
\* the listener could not bind, or the probe got no 2xx, startServer fails
\* and Main aborts or bypasses the proxy; so the command is never run with a
\* TURBO_API that points at an address this proxy does not serve.
ReadinessGuaranteed ==
    /\ sup.srv
        => /\ sup.listener.state = "bound"
           /\ sup.probe >= 200 /\ sup.probe <= 299
    /\ (Done("Get") /\ sup.listener.state # "bound")
        => /\ ~sup.srv
           /\ sup.errorsIgnored \/ (sup.ret.returned /\ sup.ret.err # NilErr)
    /\ PointedAtProxy /\ ~LookupEnv(sup.environ, "TURBO_API")
        => sup.listener.state = "bound"

-----------------------------------------------------------------------------
(* C26 *)

\* c.Start() was called and failed.
SpawnFailed == Done("Start") /\ sup.child = NoChild

-----------------------------------------------------------------------------
(* C27 *)

\* The variable is set in the environment of Main, to whatever value.
SetInParent(name) ==
    \E i \in DOMAIN sup.environ :
        /\ Len(sup.environ[i]) > Len(name)
        /\ SubSeq(sup.environ[i], 1, Len(name) + 1) = name \o "="

\* http://<addr-normalized> for the bind addresses of the model.
NormalizedURL ==
    CASE sup.opts.BindAddr = ":8080" -> "http://localhost:8080"
      [] sup.opts.BindAddr = "127.0.0.1:8080" -> "http://127.0.0.1:8080"

\* The entries that injection adds: one for each variable that is unset.
Additions ==
    (IF SetInParent("TURBO_API") THEN <<>> ELSE <<"TURBO_API=" \o NormalizedURL>>)
    \o (IF SetInParent("TURBO_TOKEN") THEN <<>> ELSE <<"TURBO_TOKEN=ignore">>)
    \o (IF SetInParent("TURBO_TEAM") THEN <<>> ELSE <<"TURBO_TEAM=ignore">>)

\* C27: the command receives TURBO_API=http://<addr-normalized> ("localhost"
\* put before a bind address that begins with ':'), TURBO_TOKEN=ignore and
\* TURBO_TEAM=ignore, each only if that variable is unset in the environment
\* of Main, whose entries are kept as they are; this happens only when AutoEnv
\* is on and the proxy actually runs (not disabled, no failure ignored), and
\* otherwise the command inherits the environment unchanged.
EnvironmentInjection ==
    Done("Start")
    => IF sup.opts.AutoEnv /\ ~sup.opts.Disabled /\ ~sup.errorsIgnored
       THEN sup.cmdEnv = sup.environ \o Additions
       ELSE sup.cmdEnv = sup.environ

\* With TURBO_TEAM set by the user and the proxy bound to ":8080", the
\* command got the two other variables and kept the user's team.
EnvironmentInjectionWitness ==
    /\ sup.at = "wait" /\ sup.opts.AutoEnv /\ sup.srv
    /\ sup.cmdEnv = <<"PATH=/bin", "TURBO_TEAM=cache-version-1",
                      "TURBO_API=http://localhost:8080", "TURBO_TOKEN=ignore">>

-----------------------------------------------------------------------------
(* C28 *)

\* The calls by which Main brings the proxy up.
ProxyCalls ==
    {"NewClientConn", "CheckCapabilities", "NewServer", "ListenAndServe", "Get"}

-----------------------------------------------------------------------------
(* C29 *)

\* The labels of the counters, in the fixed order.
SlogLabels ==
    << <<"errors", "ErrorsCount">>, <<"uploads", "UploadCount">>,
       <<"exists_yes", "ExistsYesCount">>, <<"exists_no", "ExistsNoCount">>,
       <<"downloads", "DownloadCount">>,
       <<"downloads_not_found", "DownloadNotFoundCount">>,
       <<"ul_bytes", "UploadedBytes">>, <<"dl_bytes", "DownloadedBytes">> >>

\* The place of a label in that order, 0 for a label that is not a counter's.
LabelPos(label) ==
    IF \E i \in DOMAIN SlogLabels : SlogLabels[i][1] = label
    THEN CHOOSE i \in DOMAIN SlogLabels : SlogLabels[i][1] = label
    ELSE 0

\* Main has returned without an error and the summary was made.
Summarized == sup.ret.returned /\ sup.ret.err = NilErr

\* C29: SlogArgs emits one (label, value) pair for each non-zero counter, in
\* the order errors, uploads, exists_yes, exists_no, downloads,
\* downloads_not_found, ul_bytes, dl_bytes, and none for a zero counter; the
\* pair cache_requests=0 is emitted if and only if every counter is zero, and
\* then it is the only pair.
SummaryFormat ==
    Summarized
    => LET st == sup.ret.serverStats
           out == sup.summary
           allZero == \A f \in DOMAIN st : st[f] = 0
       IN  /\ allZero <=> (\E i \in DOMAIN out : out[i] = <<"cache_requests", 0>>)
           /\ allZero => out = << <<"cache_requests", 0>> >>
           /\ ~allZero =>
                /\ \A i \in DOMAIN SlogLabels :
                     LET here == {j \in DOMAIN out : out[j][1] = SlogLabels[i][1]}
                     IN  IF st[SlogLabels[i][2]] # 0
                         THEN /\ Cardinality(here) = 1
                              /\ \A j \in here : out[j][2] = st[SlogLabels[i][2]]
                         ELSE here = {}
                /\ \A j \in DOMAIN out : LabelPos(out[j][1]) > 0
                /\ \A j \in DOMAIN out, k \in DOMAIN out :
                     j < k => LabelPos(out[j][1]) < LabelPos(out[k][1])

\* An upload and a download of its two bytes are summed up in four pairs.
SummaryFormatWitness ==
    /\ Summarized
    /\ sup.summary = << <<"uploads", 1>>, <<"downloads", 1>>,
                        <<"ul_bytes", 2>>, <<"dl_bytes", 2>> >>

-----------------------------------------------------------------------------
(* C30 *)

\* The download of goroutine g succeeded.
DownloadSucceeded(g) ==
    JustServed(g) /\ req[g].kind = "get" /\ resp[g].code = 200

\* The auxiliary_metadata of the ActionResult that GetActionResult answered
\* that download with.
AuxiliaryMetadataOf(g) ==
    IF loc[g].located \in RewrittenOutcomes THEN ForeignMetadata(loc[g].located)
    ELSE LET ar == ac[prepareACProtos(loc[g].call.key).action.digest.hash]
         IN  IF ar.execution_metadata = <<>> THEN <<>>
             ELSE ar.execution_metadata[1].auxiliary_metadata

\* The header names under which the string entries of md are set.
StringHeaders(md) ==
    {CanonicalMIMEHeaderKey(k) : k \in {x \in DOMAIN md : md[x].kind = "string"}}

\* C30: auxiliary_metadata with exactly one Any entry decodes to the map held
\* in that struct; zero entries decode to empty, and two or more entries
\* decode to empty without an error; when the map is projected onto the
\* response headers, an entry whose value is not a string is skipped and a
\* string entry is set under its key as the header name.
MetadataDecode ==
    \A g \in Procs :
        DownloadSucceeded(g)
        => LET aux == AuxiliaryMetadataOf(g)
               md == loc[g].md
           IN  /\ loc[g].err = NilErr
               /\ Len(aux) = 1 => md = aux[1].fields
               /\ Len(aux) # 1 => md = NoMetadata
               /\ DOMAIN resp[g].headers = StringHeaders(md) \cup {"Content-Type"}
               /\ \A k \in DOMAIN md :
                    IF md[k].kind = "string"
                    THEN resp[g].headers[CanonicalMIMEHeaderKey(k)] = md[k].v
                    ELSE CanonicalMIMEHeaderKey(k) \notin DOMAIN resp[g].headers

\* A download decoded a struct that holds a string and a number: the string
\* came back as a header, the number did not.
MetadataDecodeWitness ==
    \E g \in Procs :
        /\ DownloadSucceeded(g) /\ loc[g].located = "mixed"
        /\ loc[g].md = ("x-artifact-tag" :> StringValue("T"))
                       @@ ("x-artifact-duration" :> NumberValue("42"))
        /\ resp[g].headers = ("X-Artifact-Tag" :> "T")
                             @@ ("Content-Type" :> "application/octet-stream")

-----------------------------------------------------------------------------
(* C31 *)

\* NewClientConn has returned.
ConnTried == Done("NewClientConn")

\* The blobs NewClientConn was given.
CertSupplied == ~sup.tls.nil /\ sup.tls.CertPEM # ""

KeySupplied == ~sup.tls.nil /\ sup.tls.KeyPEM # ""

\* NewClientConn failed before it chose credentials or made a connection.
NoConnection == sup.conn.nil /\ sup.creds = "" /\ sup.connErr # NilErr

ConfigurationError ==
    /\ NoConnection
    /\ sup.connErr.msg = "only one of certPEMBlock and keyPEMBlock was provided"

\* C31 as stated: NewClientConn uses a TLS transport when both a
\* certificate and a key are supplied, an insecure transport when both are
\* absent, and fails with a configuration error, without creating a
\* connection, when exactly one of the two is supplied.
TransportSelection ==
    ConnTried
    => /\ (CertSupplied /\ KeySupplied) => sup.creds = "tls"
       /\ (~CertSupplied /\ ~KeySupplied) => sup.creds = "insecure"
       /\ (CertSupplied # KeySupplied) => ConfigurationError

\* C31 as amended: when both blobs are supplied NewClientConn uses a TLS
\* transport if tls.X509KeyPair accepts them, and otherwise fails with the
\* error of X509KeyPair without creating a connection; when both are absent
\* it uses an insecure transport; when exactly one is supplied it fails with
\* a configuration error without creating a connection.  A connection is
\* returned exactly when there is no error, and it carries the credentials
\* that were chosen.
TransportSelectionParsed ==
    ConnTried
    => /\ (CertSupplied /\ KeySupplied) =>
            IF X509KeyPair(sup.tls.CertPEM, sup.tls.KeyPEM) = NilErr
            THEN sup.creds = "tls"
            ELSE /\ NoConnection
                 /\ sup.connErr = X509KeyPair(sup.tls.CertPEM, sup.tls.KeyPEM)
       /\ (~CertSupplied /\ ~KeySupplied) => sup.creds = "insecure"
       /\ (CertSupplied # KeySupplied) => ConfigurationError
       /\ sup.conn.nil <=> sup.connErr # NilErr
       /\ ~sup.conn.nil => sup.conn.creds = sup.creds

\* NewClientConn was given a key and bytes that are no certificate, and
\* returned the error of X509KeyPair; Main gave up.
TransportSelectionParsedWitness ==
    /\ ConnTried /\ sup.tls = TLSCerts("junk", "KEY")
    /\ NoConnection /\ ~ConfigurationError
    /\ sup.ret.returned /\ sup.ret.exitCode = 1

-----------------------------------------------------------------------------
(* C32 *)

\* The client call of g has run prepareACProtos.
Prepared(g) == req[g].kind \in {"put", "head", "get"} /\ loc[g].acProtos # NoACProtos

\* The bytes of a Command whose only field is arguments, set to
\* ["tbc fake command", "key", K], and of an Action whose only field is
\* command_digest.
SyntheticCommand(K) == "Command{tbc fake command,key," \o K \o "}"

SyntheticAction(hash, size) == "Action{" \o hash \o "," \o ToString(size) \o "}"

-----------------------------------------------------------------------------
(* C33 *)

\* The request of g went to /v8/artifacts/events or /v8/artifacts/status.
Auxiliary(g) == req[g].kind \in {"events", "status"}

\* C33 as stated: POST /v8/artifacts/events always answers 200 and GET
\* /v8/artifacts/status always answers 200 with JSON {"status":"enabled"}.
AuxiliaryAlways200 ==
    \A g \in Procs :
        Auxiliary(g)
        => /\ resp[g].code = 200
           /\ req[g].kind = "status" => resp[g].body = statusBody

\* What holds of every events or status request the server has taken up.
AuxiliaryInv ==
    \A g \in Procs :
        Auxiliary(g)
        => /\ pc[g] = "done"
           /\ IF Authorized(req[g])
              THEN /\ resp[g].code = 200
                   /\ req[g].kind = "events" => resp[g].body = ""
                   /\ req[g].kind = "status" =>
                        /\ resp[g].body = "{\"status\":\"enabled\"}\n"
                        /\ resp[g].headers = ("Content-Type" :> "application/json")
              ELSE resp[g].code = 403
           /\ loc[g].call = NoCall /\ loc[g].acProtos = NoACProtos
           /\ loc[g].incs = <<>> /\ g \notin tmpfiles

\* The step that serves an events or status request leaves the counters, the
\* remote and the temp files alone.
AuxiliaryFrame ==
    (\E g \in Procs : /\ nreq' = nreq + 1
                      /\ \A p \in Procs : pc'[p] \in {"idle", "done"}
                      /\ lastAlone' = g
                      /\ req'[g].kind \in {"events", "status"})
    => UNCHANGED <<stats, cas, bsw, ac, tmpfiles, counted>>

\* C33 as amended: a POST /v8/artifacts/events that passes the bearer gate
\* is always answered 200, and a GET /v8/artifacts/status that passes it is
\* always answered 200 with JSON {"status":"enabled"}, whatever the state of
\* the store (with a token configured, a request without the exact
\* Authorization header is answered 403 like on every other route); neither
\* calls the remote-cache client, changes any stats counter, or creates a
\* temp file.
AuxiliaryEndpoints == []AuxiliaryInv /\ [][AuxiliaryFrame]_vars

\* A status request was answered "enabled" after an upload had filled the
\* store and moved the counters.
AuxiliaryEndpointsWitness ==
    \E g \in Procs :
        /\ req[g].kind = "status" /\ pc[g] = "done" /\ lastAlone = g
        /\ resp[g].code = 200 /\ resp[g].body = statusBody
        /\ DOMAIN ac # {} /\ cas # {} /\ stats.UploadCount = 1

-----------------------------------------------------------------------------
(* C34 *)

\* Where a handler stands while its UploadFile call runs.
UploadSteps == {"ul_cas", "ul_close", "ul_batch", "ul_ac"}

\* This step is a step of g's UploadFile call.
UploadStep(g) == pc[g] \in UploadSteps /\ pc'[g] # pc[g]

\* This step is the one in which g's UploadFile call returns nil after its
\* UpdateActionResult.
UploadCommits(g) == pc[g] = "ul_ac" /\ UploadStep(g) /\ loc'[g].err = NilErr

\* A step of an UploadFile call, other than the return of nil after
\* UpdateActionResult, leaves the ActionCache as it is and removes no blob.
UploadFailureFrame ==
    \A g \in Procs :
        (UploadStep(g) /\ ~UploadCommits(g)) => (ac' = ac /\ cas \subseteq cas')

-----------------------------------------------------------------------------
(* C35 *)

OutcomeCounters ==
    {"ErrorsCount", "UploadCount", "ExistsYesCount", "ExistsNoCount",
     "DownloadCount", "DownloadNotFoundCount"}

\* The handler of an artifact route ran for the request of g and has
\* returned.
HandlerReturned(g) ==
    req[g].kind \in {"put", "head", "get"} /\ loc[g].ran /\ pc[g] = "done"

\* The updates of counter f among the updates c.
UpdatesOf(c, f) == {i \in DOMAIN c : c[i][1] = f}

\* The updates c are one increment by one of one outcome counter, with
\* ul_bytes only next to uploads and dl_bytes only next to downloads.
OneOutcome(c) ==
    /\ Cardinality({i \in DOMAIN c : c[i][1] \in OutcomeCounters}) = 1
    /\ \A i \in DOMAIN c : c[i][1] \in OutcomeCounters => c[i][2] = 1
    /\ \A i \in DOMAIN c :
            c[i][1] \in OutcomeCounters \cup {"UploadedBytes", "DownloadedBytes"}
    /\ UpdatesOf(c, "UploadedBytes") # {}
            => (UpdatesOf(c, "UploadCount") # {}
                /\ Cardinality(UpdatesOf(c, "UploadedBytes")) = 1)
    /\ UpdatesOf(c, "DownloadedBytes") # {}
            => (UpdatesOf(c, "DownloadCount") # {}
                /\ Cardinality(UpdatesOf(c, "DownloadedBytes")) = 1)

\* C35: every PUT, HEAD or GET on /v8/artifacts/{hash} that reaches its
\* handler increments exactly one of errors, uploads, exists_yes, exists_no,
\* downloads, downloads_not_found, exactly once (ul_bytes and dl_bytes only
\* together with uploads and downloads); so once such a request has been
\* served the summary of the stats, also of the stats Main reads when the
\* child exits, is not the sentinel cache_requests=0.
CountedOnce ==
    /\ \A g \in Procs : HandlerReturned(g) => OneOutcome(loc[g].counts)
    /\ (\E g \in Procs : HandlerReturned(g))
            => /\ SlogArgs(stats) # << <<"cache_requests", 0>> >>
               /\ exited => SlogArgs(snap) # << <<"cache_requests", 0>> >>

\* Two overlapping HEAD requests for a key that is not there were answered
\* 404 and each did its one increment of exists_no, of which one was lost:
\* the summary is exists_no=1.
CountedOnceWitness ==
    /\ \A g \in Procs :
            /\ HandlerReturned(g) /\ req[g].kind = "head" /\ resp[g].code = 404
            /\ ~loc[g].alone
            /\ loc[g].counts = << <<"ExistsNoCount", 1>> >>
    /\ SlogArgs(stats) = << <<"exists_no", 1>> >>

-----------------------------------------------------------------------------
(* C36 *)

\* This step is taken by the handler of g's request.
HandlerStep(g) == pc'[g] # pc[g]

\* The maps f and f2 agree on every key but x.
SameExcept(f, f2, x) ==
    \A y \in (DOMAIN f \cup DOMAIN f2) \ {x} :
        y \in DOMAIN f /\ y \in DOMAIN f2 /\ f[y] = f2[y]

\* The remote store and the in-memory store are as they were.
StoreUnchanged == cas' = cas /\ bsw' = bsw /\ ac' = ac /\ mem' = mem

\* A step of a HEAD or GET leaves the stores alone; a step of a PUT for key K
\* removes no blob and changes no entry but that of K.
ArtifactFrame ==
    /\ \A g \in Procs :
        HandlerStep(g)
        => IF req'[g].kind \in {"head", "get"} THEN StoreUnchanged
           ELSE IF req'[g].kind = "put"
           THEN LET K == CanonicalKey(req'[g])
                IN  /\ cas \subseteq cas'
                    /\ SameExcept(ac, ac', prepareACProtos(K).action.digest.hash)
                    /\ SameExcept(mem, mem', K)
           ELSE StoreUnchanged
    /\ (\A g \in Procs : ~HandlerStep(g)) => StoreUnchanged

\* C36: HEAD and GET never change the remote store (no CAS write, no
\* ActionCache update), whatever their outcome; a PUT for canonical key K
\* changes at most the ActionCache entry of K and adds blobs to CAS, leaving
\* the entry of every other key unchanged.  The same holds of the in-memory
\* client's map.
ArtifactOperationsFrame == [][ArtifactFrame]_vars

\* Two uploads under different keys were stored, and the entry of the first
\* is still there after the second.
ArtifactOperationsFrameWitness ==
    \E g \in Procs, h \in Procs :
        /\ req[g].kind = "put" /\ resp[g].code = 202
        /\ req[h].kind = "put" /\ resp[h].code = 202
        /\ CanonicalKey(req[g]) # CanonicalKey(req[h])
        /\ InActionCache(CanonicalKey(req[g]))
        /\ InActionCache(CanonicalKey(req[h]))
        /\ DOMAIN mem = {CanonicalKey(req[g]), CanonicalKey(req[h])}

-----------------------------------------------------------------------------
(* C37 *)

\* Main has called cmd.srv.GetStatistics().
StatisticsRead == Done("GetStatistics")

\* C37: Main calls GetStatistics on cmd.srv only when the proxy actually
\* runs (not disabled, and startup succeeded without an ignored failure), and
\* then startServer has returned nil and set cmd.srv; in every other run the
\* stats Main returns are the zero value.
StatsOnlyFromStartedServer ==
    /\ StatisticsRead
        => /\ ~sup.opts.Disabled /\ ~sup.errorsIgnored
           /\ sup.srv /\ hcGet(sup.probe) = NilErr
           /\ 0 < Pos("NewServer") /\ Pos("NewServer") < Pos("Get")
           /\ Pos("Get") < Pos("GetStatistics")
           /\ sup.ret.returned /\ sup.ret.serverStats = stats
    /\ (sup.ret.returned /\ ~StatisticsRead) => sup.ret.serverStats = ZeroStats
    /\ (sup.ret.returned /\ (sup.opts.Disabled \/ sup.errorsIgnored \/ ~sup.srv))
        => (~StatisticsRead /\ sup.ret.serverStats = ZeroStats)

\* The server was built but the probe never got an answer; the failure was
\* ignored, the command ran and exited, and Main returned zero stats without
\* asking the server.
StatsOnlyFromStartedServerWitness ==
    /\ Done("NewServer") /\ Done("Get") /\ ~sup.srv /\ sup.errorsIgnored
    /\ sup.listener.state = "denied"
    /\ sup.child.state = "exited" /\ sup.ret.returned /\ sup.ret.err = NilErr
    /\ ~StatisticsRead /\ sup.ret.serverStats = ZeroStats

-----------------------------------------------------------------------------
(* C38 *)

\* C38: Main terminates whenever the child terminates: the capability check
\* and the readiness probe are bounded, so start-up always ends, in success
\* or in a reported failure, and after the child exits Main returns without
\* waiting for the HTTP server or for requests in flight.
MainTerminates == <>sup.ret.returned

====
